---------------------------- MODULE Spec2Model ----------------------------
(***************************************************************************)
(* Gamecard session of nxdumptool: hot-plug detection thread, cached card  *)
(* info and the dual-area (normal + secure) storage read path.             *)
(*                                                                         *)
(* The repository holds two revisions of the gamecard interface:           *)
(*   src/source/gamecard.c   (service guard + mtx_t shared-data mutex)     *)
(*   src/unnamed/part_000    (Mutex g_gamecardMutex + interface-init flag) *)
(* The variable impl selects the revision; every behaviour runs one of     *)
(* them from start to end.  Where the two agree a definition cites both.   *)
(*                                                                         *)
(* Sizes are scaled: a media unit is GAMECARD_MEDIA_UNIT_SIZE bytes, the   *)
(* scratch buffer BufUnits media units, an unsigned 64-bit word WordBits   *)
(* bits.  Card bytes are symbolic: <<generation, area, area offset>>, so   *)
(* two different card bytes are never equal by accident.                   *)
(***************************************************************************)
EXTENDS Integers, Sequences, FiniteSets, TLC

\* ------------------------------------------------------------ constants

\* GAMECARD_MEDIA_UNIT_SIZE (0x200 in the source), scaled.
GAMECARD_MEDIA_UNIT_SIZE == 2

\* Media units in the scratch read buffer (0x4000 in the source).
BufUnits == 2

\* GAMECARD_READ_BUFFER_SIZE (8 MiB in the source).
GAMECARD_READ_BUFFER_SIZE == BufUnits * GAMECARD_MEDIA_UNIT_SIZE

\* Media units of the card's normal and secure storage areas.
NormalUnits == 2

SecureUnits == 4

\* Bits of the model's "u64".
WordBits == 5

\* Card insertions a behaviour may see.
MaxInsertions == 2

\* Nested gamecardInitialize calls the service guard counts.
MaxRefs == 2

\* The driver read of a call that fault injection may fail (0: none).
MaxFaultAt == 2

U64_MOD == 2 ^ WordBits

u64(x) == x % U64_MOD

GameCardStorageArea_None == 0

GameCardStorageArea_Normal == 1

GameCardStorageArea_Secure == 2

\* The two revisions of the interface.
Impls == {"gamecard_c", "part_000"}

\* Threads that call the public interface.
Clients == {"c1", "c2"}

\* The detection thread's name as a mutex owner and as a reader.
Det == "det"

\* The thread that calls gamecardInitialize / gamecardExit.
Main == "main"

Readers == Clients \cup {Det}

\* ------------------------------------------------------------- hardware

\* What the card reports as the size of each storage area.
HwAreaSize(area) ==
    IF area = GameCardStorageArea_Normal THEN NormalUnits * GAMECARD_MEDIA_UNIT_SIZE
    ELSE IF area = GameCardStorageArea_Secure THEN SecureUnits * GAMECARD_MEDIA_UNIT_SIZE
    ELSE 0

HwTotalSize == HwAreaSize(GameCardStorageArea_Normal) + HwAreaSize(GameCardStorageArea_Secure)

\* A byte never written by the driver.
Untouched == <<0, 0, 0>>

\* The byte of card generation gen at logical offset o of the image
\* "normal area followed by secure area".
ImageByte(gen, o) ==
    IF o < HwAreaSize(GameCardStorageArea_Normal)
    THEN <<gen, GameCardStorageArea_Normal, o>>
    ELSE <<gen, GameCardStorageArea_Secure, o - HwAreaSize(GameCardStorageArea_Normal)>>

\* Bytes [offset, offset + size) of the logical image.
ImageRange(gen, offset, size) == [i \in 1..size |-> ImageByte(gen, offset + i - 1)]

VARIABLES
    impl,       \* which revision runs
    hw,         \* the card slot: present, gen, valid, event (kernel event pending)
    g,          \* the interface's globals (g_gameCard*), one field each
    mutex,      \* owner of the session mutex, "" when free
    det,        \* the detection thread: pc, prev_status, phase, step
    rd,         \* per reader: the gamecardReadStorageArea call in progress
    cl,         \* per client: pc and the last result returned to it
    mainpc,     \* the lifecycle thread's position
    input,      \* driver-fault injection, the driver-call log of a read, and
                \* the clients that call (users)
    task        \* a DataTransferTask, its Handler and its progress event

vars == <<impl, hw, g, mutex, det, rd, cl, mainpc, input, task>>

\* ------------------------------------------------------- DataTransferTask
(***************************************************************************)
(* The task record: AsyncTask's status ("PENDING", "RUNNING", "FINISHED"), *)
(* cancelled flag, future (ready: DoInBackground has returned) and         *)
(* progress (total_size, xfer_size); DataTransferTask's prev_xfer_size,    *)
(* first_publish_progress, prev_time (recent: less than one second has     *)
(* passed since prev_time) and end_time (ended: it is set); the Handler's  *)
(* finished flag and the RepeatingTask's running flag; the number of       *)
(* subscribers of progress_event; published: what progress_event.fire      *)
(* delivered, each with the subscribers called (to), what IsFinished()     *)
(* returned to them (finished) and whether it was the update of            *)
(* PostExecutionCallback (final); last: how the last OnProgressUpdate      *)
(* ended ("fired", "noprogress", "throttled").                             *)
(***************************************************************************)
NoTask ==
    [status |-> "PENDING", cancelled |-> FALSE, ready |-> FALSE,
     total_size |-> 0, xfer_size |-> 0,
     prev_xfer_size |-> 0, first_publish_progress |-> TRUE, recent |-> TRUE,
     ended |-> FALSE, finished |-> FALSE, running |-> FALSE,
     listeners |-> 0, published |-> <<>>, last |-> "none"]

\* An OnProgressUpdate that goes on whatever the progress is: no comparison
\* with prev_xfer_size.
OnProgressUpdateAnyProgress(T) ==
    LET new_total == IF T.total_size = 0 /\ T.status = "FINISHED"
                     THEN T.xfer_size ELSE T.total_size
    IN  IF /\ ~T.cancelled
           /\ T.recent
           /\ \/ (T.total_size # 0 /\ T.xfer_size < T.total_size)
              \/ T.status = "RUNNING"
        THEN [T EXCEPT !.last = "throttled"]
        ELSE [T EXCEPT !.recent = TRUE,
                       !.prev_xfer_size = T.xfer_size,
                       !.first_publish_progress = FALSE,
                       !.last = "fired",
                       !.published =
                           Append(@, [xfer_size |-> T.xfer_size,
                                      total_size |-> new_total,
                                      to |-> T.listeners,
                                      finished |-> T.finished,
                                      final |-> T.ended])]

\* DataTransferTask::OnProgressUpdate(progress) with progress = the task's
\* current progress.
OnProgressUpdate(T) ==
    LET proceed ==
          \/ T.xfer_size > T.prev_xfer_size
          \/ /\ T.xfer_size = T.prev_xfer_size
             /\ \/ T.total_size = 0
                \/ T.xfer_size >= T.total_size
                \/ T.first_publish_progress
        new_total == IF T.total_size = 0 /\ T.status = "FINISHED"
                     THEN T.xfer_size ELSE T.total_size
    IN  IF ~proceed THEN [T EXCEPT !.last = "noprogress"]
        ELSE IF /\ ~T.cancelled
                /\ T.recent
                /\ \/ (T.total_size # 0 /\ T.xfer_size < T.total_size)
                   \/ T.status = "RUNNING"
        THEN [T EXCEPT !.last = "throttled"]
        ELSE [T EXCEPT !.recent = TRUE,
                       !.prev_xfer_size = T.xfer_size,
                       !.first_publish_progress = FALSE,
                       !.last = "fired",
                       !.published =
                           Append(@, [xfer_size |-> T.xfer_size,
                                      total_size |-> new_total,
                                      to |-> T.listeners,
                                      finished |-> T.finished,
                                      final |-> T.ended])]

RECURSIVE HandlerRun(_)

\* brls::RepeatingTask::fireNow: run the task now if it is running.
fireNow(T) == IF T.running THEN HandlerRun(T) ELSE T

\* A post-execution callback that publishes before it fires the handler.
PostExecutionCallbackPublishFirst(T) ==
    fireNow(OnProgressUpdate([T EXCEPT !.ended = TRUE]))

\* DataTransferTask::PostExecutionCallback, which is all OnCancelled and
\* OnPostExecute do.
PostExecutionCallback(T) ==
    OnProgressUpdate(fireNow([T EXCEPT !.ended = TRUE]))

\* AsyncTask::Finish: the status becomes FINISHED, then OnCancelled or
\* OnPostExecute runs.
Finish(T) == PostExecutionCallback([T EXCEPT !.status = "FINISHED"])

\* AsyncTask::LoopCallback: true once the task has finished; while the
\* background work goes on it pushes the current progress and returns false.
LoopCallback(T) ==
    IF T.status = "FINISHED" THEN [T |-> T, ret |-> TRUE]
    ELSE IF T.status = "PENDING" THEN [T |-> T, ret |-> FALSE]
    ELSE IF T.ready THEN [T |-> Finish(T), ret |-> TRUE]
    ELSE [T |-> OnProgressUpdate(T), ret |-> FALSE]

\* Handler::run
HandlerRun(T) ==
    IF T.finished THEN T
    ELSE LET r == LoopCallback(T)
         IN  [r.T EXCEPT !.finished = r.ret,
                         !.running = IF r.ret THEN FALSE ELSE @]


\* ------------------------------------------------- handle and storage area

\* A closed FsStorage (serviceIsActive() is false).
NoStorage == [active |-> FALSE, gen |-> 0, area |-> GameCardStorageArea_None]

\* Driver: opening a storage with a handle works while the card that issued
\* the handle is still in the slot.
fsOpenGameCardStorage(H, handle) == H.present /\ handle # 0 /\ handle = H.gen

\* Driver: a new handle is issued while a card is in the slot.
fsDeviceOperatorGetGameCardHandle(H) == H.present

\* Driver: an open storage reads [off, off + len) of its own area while the
\* card it was opened on is still in the slot.
fsStorageReadOk(G, H, off, len) ==
    /\ G.gameCardStorage.active
    /\ H.present
    /\ G.gameCardStorage.gen = H.gen
    /\ off + len <= HwAreaSize(G.gameCardStorage.area)

fsStorageReadData(G, off, len) ==
    [i \in 1..len |-> <<G.gameCardStorage.gen, G.gameCardStorage.area, off + i - 1>>]

gamecardCloseHandle(G) == [G EXCEPT !.gameCardHandle = 0]

gamecardCloseStorageArea(G) ==
    [gamecardCloseHandle(G) EXCEPT !.gameCardStorage = NoStorage,
                                   !.gameCardStorageCurrentArea = GameCardStorageArea_None]

\* A retry loop that goes on for as long as the open fails.
RECURSIVE gamecardGetHandleTriesUntilOpen(_, _, _, _, _)
gamecardGetHandleTriesUntilOpen(G, H, i, rc1, rc2) ==
    IF i >= 12 THEN [G |-> G, rc1 |-> rc1, rc2 |-> rc2, tries |-> i]
    ELSE IF fsOpenGameCardStorage(H, G.gameCardHandle)
         THEN [G |-> G, rc1 |-> TRUE, rc2 |-> rc2, tries |-> i + 1]
         ELSE LET got == fsDeviceOperatorGetGameCardHandle(H)
                  G2  == IF got THEN [G EXCEPT !.gameCardHandle = H.gen]
                                ELSE gamecardCloseHandle(G)
              IN  gamecardGetHandleTriesUntilOpen(G2, H, i + 1, FALSE, got)

\* The retry loop of gamecardGetHandle from try i on; rc1, rc2 are TRUE for
\* success, tries counts the calls of fsOpenGameCardStorage.
RECURSIVE gamecardGetHandleTries(_, _, _, _, _)
gamecardGetHandleTries(G, H, i, rc1, rc2) ==
    IF i >= 10 THEN [G |-> G, rc1 |-> rc1, rc2 |-> rc2, tries |-> i]
    ELSE IF fsOpenGameCardStorage(H, G.gameCardHandle)
         THEN [G |-> G, rc1 |-> TRUE, rc2 |-> rc2, tries |-> i + 1]
         ELSE LET got == fsDeviceOperatorGetGameCardHandle(H)
                  G2  == IF got THEN [G EXCEPT !.gameCardHandle = H.gen]
                                ELSE gamecardCloseHandle(G)
              IN  gamecardGetHandleTries(G2, H, i + 1, FALSE, got)

gamecardGetHandle(G, H) ==
    IF ~G.gameCardInserted THEN [ok |-> FALSE, G |-> G, tries |-> 0]
    ELSE LET r == gamecardGetHandleTries(G, H, 0, TRUE, TRUE)
         IN  IF ~r.rc1 \/ ~r.rc2
             THEN [ok |-> FALSE, G |-> gamecardCloseHandle(r.G), tries |-> r.tries]
             ELSE [ok |-> TRUE, G |-> r.G, tries |-> r.tries]

\* An open that leaves the storage and the handle it finds as they are.
gamecardOpenStorageAreaKeepOpen(G, H, area) ==
    IF \/ ~G.gameCardInserted
       \/ area \notin {GameCardStorageArea_Normal, GameCardStorageArea_Secure}
    THEN [ok |-> FALSE, G |-> G]
    ELSE IF /\ G.gameCardHandle # 0
            /\ G.gameCardStorage.active
            /\ G.gameCardStorageCurrentArea = area
    THEN [ok |-> TRUE, G |-> G]
    ELSE LET h == gamecardGetHandle(G, H)
         IN  IF ~h.ok THEN [ok |-> FALSE, G |-> h.G]
             ELSE IF ~fsOpenGameCardStorage(H, h.G.gameCardHandle)
             THEN [ok |-> FALSE, G |-> gamecardCloseHandle(h.G)]
             ELSE [ok |-> TRUE,
                   G  |-> [h.G EXCEPT
                             !.gameCardStorage = [active |-> TRUE,
                                                  gen |-> h.G.gameCardHandle,
                                                  area |-> area],
                             !.gameCardStorageCurrentArea = area]]

gamecardOpenStorageArea(G, H, area) ==
    IF \/ ~G.gameCardInserted
       \/ area \notin {GameCardStorageArea_Normal, GameCardStorageArea_Secure}
    THEN [ok |-> FALSE, G |-> G]
    ELSE IF /\ G.gameCardHandle # 0
            /\ G.gameCardStorage.active
            /\ G.gameCardStorageCurrentArea = area
    THEN [ok |-> TRUE, G |-> G]
    ELSE LET h == gamecardGetHandle(gamecardCloseStorageArea(G), H)
         IN  IF ~h.ok THEN [ok |-> FALSE, G |-> h.G]
             ELSE IF ~fsOpenGameCardStorage(H, h.G.gameCardHandle)
             THEN [ok |-> FALSE, G |-> gamecardCloseHandle(h.G)]
             ELSE [ok |-> TRUE,
                   G  |-> [h.G EXCEPT
                             !.gameCardStorage = [active |-> TRUE,
                                                  gen |-> h.G.gameCardHandle,
                                                  area |-> area],
                             !.gameCardStorageCurrentArea = area]]

\* The driver and kernel calls of the retry loop of gamecardGetHandle from
\* try i on, in order, handle being g_gameCardHandle.value.
RECURSIVE gamecardGetHandleCalls(_, _, _)
gamecardGetHandleCalls(handle, H, i) ==
    IF i >= 10 THEN <<>>
    ELSE IF fsOpenGameCardStorage(H, handle)
         THEN <<"fsOpenGameCardStorage", "fsStorageClose">>
         ELSE <<"fsOpenGameCardStorage", "svcCloseHandle",
                "fsDeviceOperatorGetGameCardHandle">>
              \o gamecardGetHandleCalls(
                     IF fsDeviceOperatorGetGameCardHandle(H) THEN H.gen ELSE 0,
                     H, i + 1)

\* The driver and kernel calls gamecardOpenStorageArea makes, in order:
\* none when it returns at once; else those of gamecardCloseStorageArea
\* (fsStorageClose on an active storage, svcCloseHandle), those of
\* gamecardGetHandle (with svcCloseHandle when it fails), then
\* fsOpenGameCardStorage (with svcCloseHandle when it fails).
gamecardOpenStorageAreaCalls(G, H, area) ==
    IF \/ ~G.gameCardInserted
       \/ area \notin {GameCardStorageArea_Normal, GameCardStorageArea_Secure}
       \/ /\ G.gameCardHandle # 0
          /\ G.gameCardStorage.active
          /\ G.gameCardStorageCurrentArea = area
    THEN <<>>
    ELSE LET h == gamecardGetHandle(gamecardCloseStorageArea(G), H)
         IN  (IF G.gameCardStorage.active THEN <<"fsStorageClose">> ELSE <<>>)
             \o <<"svcCloseHandle">>
             \o gamecardGetHandleCalls(0, H, 0)
             \o (IF ~h.ok THEN <<"svcCloseHandle">>
                 ELSE IF ~fsOpenGameCardStorage(H, h.G.gameCardHandle)
                 THEN <<"fsOpenGameCardStorage", "svcCloseHandle">>
                 ELSE <<"fsOpenGameCardStorage">>)

\* ------------------------------------------------ gamecardReadStorageArea
(***************************************************************************)
(* A call of gamecardReadStorageArea is a stack of frames.  A frame is     *)
(* [st, area, off, size, pos]: st "call" is a (recursive) call that has    *)
(* not yet passed the parameter check, "open" the point before             *)
(* gamecardOpenStorageArea, "read" the point before fsStorageRead; pos is  *)
(* where in the caller's buffer the frame writes.  A failing frame fails   *)
(* every caller above it, as each call site returns its callee's failure.  *)
(***************************************************************************)

Frame(st, area, off, size, pos) ==
    [st |-> st, area |-> area, off |-> off, size |-> size, pos |-> pos]

\* The reader state of a fresh call gamecardReadStorageArea(out, read_size, offset, _).
NewRead(read_size, offset) ==
    [stack  |-> <<Frame("call", GameCardStorageArea_None, offset, read_size, 0)>>,
     out    |-> [i \in 1..read_size |-> Untouched],
     status |-> "run"]

NoRead == [stack |-> <<>>, out |-> <<>>, status |-> "idle"]

\* The parameter check at the head of gamecardReadStorageArea.
ReadParamsInvalid(G, read_size, offset) ==
    \/ ~G.gameCardInserted
    \/ G.gameCardStorageNormalAreaSize = 0
    \/ G.gameCardStorageSecureAreaSize = 0
    \/ read_size = 0
    \/ offset >= u64(G.gameCardStorageNormalAreaSize + G.gameCardStorageSecureAreaSize)
    \/ u64(offset + read_size) >
           u64(G.gameCardStorageNormalAreaSize + G.gameCardStorageSecureAreaSize)

\* From the top frame up to and including gamecardOpenStorageArea: the
\* parameter check, the split of a read that spans both areas, the open.
RECURSIVE ReadPrepare(_, _, _)
ReadPrepare(G, H, R) ==
    LET f == Head(R.stack)
        N == G.gameCardStorageNormalAreaSize
    IN  IF f.st = "call"
        THEN IF ReadParamsInvalid(G, f.size, f.off)
             THEN [G |-> G, R |-> [R EXCEPT !.status = "fail"]]
             ELSE IF f.off < N /\ u64(f.off + f.size) > N
             THEN LET diff_size == N - f.off
                  IN  ReadPrepare(G, H,
                        [R EXCEPT !.stack =
                           <<Frame("call", GameCardStorageArea_None, f.off, diff_size, f.pos),
                             Frame("open", GameCardStorageArea_Secure, N,
                                   u64(f.size - diff_size), f.pos + diff_size)>>
                           \o Tail(R.stack)])
             ELSE ReadPrepare(G, H,
                    [R EXCEPT !.stack =
                       <<Frame("open",
                               IF f.off < N THEN GameCardStorageArea_Normal
                                            ELSE GameCardStorageArea_Secure,
                               f.off, f.size, f.pos)>> \o Tail(R.stack)])
        ELSE LET o == gamecardOpenStorageArea(G, H, f.area)
             IN  IF ~o.ok
                 THEN [G |-> o.G, R |-> [R EXCEPT !.status = "fail"]]
                 ELSE [G |-> o.G, R |-> [R EXCEPT !.stack[1].st = "read"]]

\* An alignment that leaves the offset where the caller put it.
ALIGN_DOWN_Skipped(x, y) == x

ALIGN_DOWN(x, y) == x - (x % y)

ALIGN_UP(x, y) == ALIGN_DOWN(u64(x + (y - 1)), y)

\* Copy data into buf from index pos + 1 on (memcpy / the driver's write).
WriteAt(buf, pos, data) ==
    [i \in 1..Len(buf) |->
        IF i > pos /\ i <= pos + Len(data) THEN data[i - pos] ELSE buf[i]]

\* Pop the top frame; the call has succeeded when no frame is left.
PopFrame(R) ==
    [R EXCEPT !.stack = Tail(R.stack),
              !.status = IF Tail(R.stack) = <<>> THEN "ok" ELSE "run"]

\* A chunk of which nothing is copied out when the block does not fit the
\* scratch buffer: the continuation is called for the whole size again.
OutChunkSizeNothing(block_size, data_start_offset, read_size) ==
    IF block_size > GAMECARD_READ_BUFFER_SIZE THEN 0 ELSE read_size

\* An out_chunk_size that takes the whole scratch buffer for the caller's.
OutChunkSizeWholeBuffer(block_size, data_start_offset, read_size) ==
    IF block_size > GAMECARD_READ_BUFFER_SIZE
    THEN GAMECARD_READ_BUFFER_SIZE
    ELSE read_size

\* out_chunk_size: the bytes copied out of the scratch buffer after a read
\* of the block [block_start_offset, block_end_offset) or of its first
\* GAMECARD_READ_BUFFER_SIZE bytes.
OutChunkSize(block_size, data_start_offset, read_size) ==
    IF block_size > GAMECARD_READ_BUFFER_SIZE
    THEN GAMECARD_READ_BUFFER_SIZE - data_start_offset
    ELSE read_size

\* The top frame from fsStorageRead to the end of its body.  fault makes the
\* driver fail this read.  Returns the globals, the reader and the driver
\* call made: the area, offset and length read, where to ("out": the
\* caller's buffer, "buf": the scratch buffer), and the copy that follows a
\* read into the scratch buffer: from which byte of it (start), how many
\* bytes (copied), of how many the frame still has to read (left).
ReadTransfer(G, H, R, fault) ==
    LET f    == Head(R.stack)
        N    == G.gameCardStorageNormalAreaSize
        base_offset == IF f.area = GameCardStorageArea_Normal THEN f.off
                       ELSE u64(f.off - N)
    IN  IF base_offset % GAMECARD_MEDIA_UNIT_SIZE = 0
           /\ f.size % GAMECARD_MEDIA_UNIT_SIZE = 0
        THEN LET ok == ~fault /\ fsStorageReadOk(G, H, base_offset, f.size)
                 dcall == [area |-> G.gameCardStorage.area, off |-> base_offset,
                           len |-> f.size, into |-> "out",
                           start |-> 0, copied |-> f.size, left |-> f.size]
             IN  IF ~ok
                 THEN [G |-> G, R |-> [R EXCEPT !.status = "fail"], dcall |-> dcall]
                 ELSE [G |-> G,
                       R |-> PopFrame([R EXCEPT !.out =
                               WriteAt(R.out, f.pos,
                                       fsStorageReadData(G, base_offset, f.size))]),
                       dcall |-> dcall]
        ELSE LET block_start_offset == ALIGN_DOWN(base_offset, GAMECARD_MEDIA_UNIT_SIZE)
                 block_end_offset   == ALIGN_UP(u64(base_offset + f.size),
                                                GAMECARD_MEDIA_UNIT_SIZE)
                 block_size         == u64(block_end_offset - block_start_offset)
                 data_start_offset  == base_offset - block_start_offset
                 chunk_size     == IF block_size > GAMECARD_READ_BUFFER_SIZE
                                   THEN GAMECARD_READ_BUFFER_SIZE ELSE block_size
                 out_chunk_size == OutChunkSize(block_size, data_start_offset, f.size)
                 ok == ~fault /\ fsStorageReadOk(G, H, block_start_offset, chunk_size)
                 dcall == [area |-> G.gameCardStorage.area, off |-> block_start_offset,
                           len |-> chunk_size, into |-> "buf",
                           start |-> data_start_offset, copied |-> out_chunk_size,
                           left |-> f.size]
                 buf2 == WriteAt(G.gameCardReadBuf, 0,
                                 fsStorageReadData(G, block_start_offset, chunk_size))
                 G2 == [G EXCEPT !.gameCardReadBuf = buf2]
             IN  IF ~ok
                 THEN [G |-> G, R |-> [R EXCEPT !.status = "fail"], dcall |-> dcall]
                 ELSE IF data_start_offset + out_chunk_size > Len(buf2)
                 THEN \* memcpy reads past the end of the scratch buffer
                      [G |-> G2, R |-> [R EXCEPT !.status = "ub"], dcall |-> dcall]
                 ELSE LET R2 == [R EXCEPT !.out =
                                   WriteAt(R.out, f.pos,
                                     [i \in 1..out_chunk_size |->
                                        buf2[data_start_offset + i]])]
                      IN  IF block_size > GAMECARD_READ_BUFFER_SIZE
                          THEN [G |-> G2,
                                R |-> [R2 EXCEPT !.stack[1] =
                                         Frame("call", GameCardStorageArea_None,
                                               u64(base_offset + out_chunk_size),
                                               u64(f.size - out_chunk_size),
                                               f.pos + out_chunk_size)],
                                dcall |-> dcall]
                          ELSE [G |-> G2, R |-> PopFrame(R2), dcall |-> dcall]

\* ----------------------------------------------------- cached card info

\* sizeof(GameCardHashFileSystemHeader) and sizeof(GameCardHashFileSystemEntry).
GameCardHashFileSystemHeader_sizeof == 16
GameCardHashFileSystemEntry_sizeof == 64

\* The size of a hash FS header with its entries and its name table.
HashFileSystemHeaderSize(entry_count, name_table_size) ==
    GameCardHashFileSystemHeader_sizeof
    + (entry_count * GameCardHashFileSystemEntry_sizeof) + name_table_size

\* The hash FS of a card as its headers describe it: the root header size
\* the gamecard header declares (partition_fs_header_size), the root
\* header's magic (is it HFS0) and name_table_size, and for each root entry
\* the size it declares for its partition and the magic, entry_count and
\* name_table_size of that partition's header.  The root's entry_count is
\* the number of root entries.  These sizes are in bytes of the card, not
\* of the model's image.
GoodFs ==
    [root_size |-> 512, magic |-> TRUE, name_table_size |-> 32,
     parts |-> << [size |-> 4096, magic |-> TRUE, entry_count |-> 2,
                   name_table_size |-> 32] >>]

\* The reads gamecardLoadInfo issues on the model's image of card H, in
\* order: the gamecard header, the root hash FS header that follows it,
\* then for each top-level partition (the first starts where the secure
\* area starts, each takes one media unit of the image) the 16-byte
\* partition header and the full, media-unit-rounded header.
\* checked: the code validates what it has read before it goes on.
LoadPlan(H) ==
    << [kind |-> "header", part |-> 0, off |-> 0,
        size |-> GAMECARD_MEDIA_UNIT_SIZE, checked |-> TRUE],
       [kind |-> "root", part |-> 0, off |-> GAMECARD_MEDIA_UNIT_SIZE,
        size |-> GAMECARD_MEDIA_UNIT_SIZE, checked |-> TRUE] >>
    \o [k \in 1..(2 * Len(H.fs.parts)) |->
          LET i == (k + 1) \div 2
              at == HwAreaSize(GameCardStorageArea_Normal)
                    + (i - 1) * GAMECARD_MEDIA_UNIT_SIZE
          IN  IF k % 2 = 1
              THEN [kind |-> "partial", part |-> i, off |-> at, size |-> 1,
                    checked |-> TRUE]
              ELSE [kind |-> "full", part |-> i, off |-> at,
                    size |-> GAMECARD_MEDIA_UNIT_SIZE, checked |-> FALSE]]

\* Cached content that is not the card's: what a read that raced returned.
Garbage == -1

\* A gamecardFreeInfo that closes the storage area and clears
\* g_gameCardInfoLoaded but keeps the header, the sizes and the partitions.
gamecardFreeInfoKeepData(G) ==
    [gamecardCloseStorageArea(G) EXCEPT !.gameCardInfoLoaded = FALSE]

gamecardFreeInfo(G) ==
    [gamecardCloseStorageArea(G) EXCEPT
        !.gameCardHeader = 0,
        !.gameCardStorageNormalAreaSize = 0,
        !.gameCardStorageSecureAreaSize = 0,
        !.gameCardCapacity = 0,
        !.gameCardHfsRootHeader = 0,
        !.gameCardHfsPartitions = 0,
        !.gameCardInfoLoaded = FALSE]

\* Driver: fsStorageGetSize on the open storage.
fsStorageGetSize(G, H) ==
    IF G.gameCardStorage.active /\ H.present /\ G.gameCardStorage.gen = H.gen
    THEN HwAreaSize(G.gameCardStorage.area) ELSE 0

\* One round of the loop of gamecardGetStorageAreasSizes.
GetStorageAreaSize(G, H, area) ==
    LET o == gamecardOpenStorageArea(G, H, area)
        area_size == fsStorageGetSize(o.G, H)
        closed == gamecardCloseStorageArea(o.G)
    IN  IF ~o.ok THEN [ok |-> FALSE, G |-> o.G]
        ELSE IF area_size = 0
        THEN [ok |-> FALSE,
              G |-> [closed EXCEPT !.gameCardStorageNormalAreaSize = 0,
                                   !.gameCardStorageSecureAreaSize = 0]]
        ELSE [ok |-> TRUE,
              G |-> IF area = GameCardStorageArea_Normal
                    THEN [closed EXCEPT !.gameCardStorageNormalAreaSize = area_size]
                    ELSE [closed EXCEPT !.gameCardStorageSecureAreaSize = area_size]]

gamecardGetStorageAreasSizes(G, H) ==
    IF ~G.gameCardInserted THEN [ok |-> FALSE, G |-> G]
    ELSE LET n == GetStorageAreaSize(G, H, GameCardStorageArea_Normal)
         IN  IF ~n.ok THEN n
             ELSE GetStorageAreaSize(n.G, H, GameCardStorageArea_Secure)

\* The GameCardRomSize values of a header's rom_size byte and the card
\* capacities they stand for, counted in KiB (0x40000000 bytes are
\* 1048576 KiB): the byte counts of the larger cards exceed the integers
\* the model checker handles.
GameCardRomSize_1GiB == 250
GameCardRomSize_2GiB == 248
GameCardRomSize_4GiB == 240
GameCardRomSize_8GiB == 224
GameCardRomSize_16GiB == 225
GameCardRomSize_32GiB == 226
GAMECARD_CAPACITY_1GiB == 1048576
GAMECARD_CAPACITY_2GiB == 2097152
GAMECARD_CAPACITY_4GiB == 4194304
GAMECARD_CAPACITY_8GiB == 8388608
GAMECARD_CAPACITY_16GiB == 16777216
GAMECARD_CAPACITY_32GiB == 33554432

\* A lookup that takes the rom_size values for growing with the capacity.
gamecardGetCapacityOrderedByValue(rom_size) ==
    CASE rom_size = GameCardRomSize_8GiB  -> GAMECARD_CAPACITY_1GiB
      [] rom_size = GameCardRomSize_16GiB -> GAMECARD_CAPACITY_2GiB
      [] rom_size = GameCardRomSize_32GiB -> GAMECARD_CAPACITY_4GiB
      [] rom_size = GameCardRomSize_4GiB  -> GAMECARD_CAPACITY_8GiB
      [] rom_size = GameCardRomSize_2GiB  -> GAMECARD_CAPACITY_16GiB
      [] rom_size = GameCardRomSize_1GiB  -> GAMECARD_CAPACITY_32GiB
      [] OTHER -> 0

gamecardGetCapacityFromRomSizeValue(rom_size) ==
    CASE rom_size = GameCardRomSize_1GiB  -> GAMECARD_CAPACITY_1GiB
      [] rom_size = GameCardRomSize_2GiB  -> GAMECARD_CAPACITY_2GiB
      [] rom_size = GameCardRomSize_4GiB  -> GAMECARD_CAPACITY_4GiB
      [] rom_size = GameCardRomSize_8GiB  -> GAMECARD_CAPACITY_8GiB
      [] rom_size = GameCardRomSize_16GiB -> GAMECARD_CAPACITY_16GiB
      [] rom_size = GameCardRomSize_32GiB -> GAMECARD_CAPACITY_32GiB
      [] OTHER -> 0

\* What gamecardLoadInfo keeps of the data its step-th read returned.
\* content is the card generation when the bytes are the card's, Garbage
\* otherwise; the capacity comes from the rom_size byte of the header read.
LoadStore(G, H, step, content) ==
    IF LoadPlan(H)[step].kind = "header"
    THEN [G EXCEPT !.gameCardHeader = content,
                   !.gameCardCapacity =
                       IF content = Garbage THEN 0
                       ELSE gamecardGetCapacityFromRomSizeValue(H.rom_size)]
    ELSE IF LoadPlan(H)[step].kind = "root"
    THEN [G EXCEPT !.gameCardHfsRootHeader = content]
    ELSE IF LoadPlan(H)[step].kind = "partial" THEN G
    ELSE [G EXCEPT !.gameCardHfsPartitions =
                       IF @ = Garbage THEN Garbage ELSE content]

\* A validation that leaves out the name table size of a partition header.
LoadCheckWithoutNameTable(stored, H, p) ==
    CASE p.kind = "header" -> H.valid /\ stored.gameCardCapacity # 0
      [] p.kind = "root" ->
            /\ H.fs.magic
            /\ Len(H.fs.parts) # 0
            /\ H.fs.name_table_size # 0
            /\ ~(HashFileSystemHeaderSize(Len(H.fs.parts), H.fs.name_table_size)
                 > H.fs.root_size)
      [] p.kind = "partial" -> H.fs.parts[p.part].magic
      [] OTHER -> TRUE

\* The validation gamecardLoadInfo makes of what the read of plan item p
\* returned, stored being the globals with that data kept: the HEAD magic
\* and the capacity for the gamecard header; the HFS0 magic, the entry
\* count, the name table size and the header size against the declared one
\* for the root header; the HFS0 magic and the name table size for a
\* partition header.
LoadCheck(stored, H, p) ==
    CASE p.kind = "header" -> H.valid /\ stored.gameCardCapacity # 0
      [] p.kind = "root" ->
            /\ H.fs.magic
            /\ Len(H.fs.parts) # 0
            /\ H.fs.name_table_size # 0
            /\ ~(HashFileSystemHeaderSize(Len(H.fs.parts), H.fs.name_table_size)
                 > H.fs.root_size)
      [] p.kind = "partial" ->
            /\ H.fs.parts[p.part].magic
            /\ H.fs.parts[p.part].name_table_size # 0
      [] OTHER -> TRUE

\* ------------------------------------------------------------ the state

GInit ==
    [gameCardInserted |-> FALSE, gameCardInfoLoaded |-> FALSE,
     gameCardHandle |-> 0, gameCardStorage |-> NoStorage,
     gameCardStorageCurrentArea |-> GameCardStorageArea_None,
     gameCardReadBuf |-> <<>>,
     gameCardStorageNormalAreaSize |-> 0, gameCardStorageSecureAreaSize |-> 0,
     gameCardHeader |-> 0, gameCardCapacity |-> 0,
     gameCardHfsRootHeader |-> 0, gameCardHfsPartitions |-> 0,
     openDeviceOperator |-> FALSE, openEventNotifier |-> FALSE,
     loadKernelEvent |-> FALSE, gameCardDetectionThreadCreated |-> FALSE,
     gamecardInterfaceInit |-> FALSE, refCnt |-> 0,
     exitEvent |-> FALSE, statusChangeEvent |-> FALSE,
     held |-> {}, leaked |-> {}, misuse |-> {}]

\* failed: the card (its generation) whose info load failed in this thread,
\* 0 when none did. atExit: what the globals said of the card when
\* gamecardExit signalled the thread ("" until then).
DetInit == [pc |-> "off", prev_status |-> FALSE, phase |-> "init", step |-> 0, failed |-> 0,
            atExit |-> ""]

NoResult == [op |-> "none", ret |-> FALSE, wrote |-> FALSE, devcall |-> FALSE,
             opened |-> FALSE]

\* A client: its position, the request of its read, what was true of the
\* session when the read took the mutex (ready), whether the card left the
\* slot meanwhile (removed), the request of a client that was in the read
\* call at the same time (peer, <<>> if none), and the last result.
ClientInit ==
    [pc |-> "idle", res |-> NoResult, off |-> 0, size |-> 0,
     ready |-> FALSE, removed |-> FALSE, peer |-> <<>>]

\* No driver fault is injected, no driver call is logged, one client calls.
InputInit == [failAt |-> 0, log |-> <<>>, on |-> FALSE, users |-> {"c1"},
              faults |-> {0}, romSizes |-> {GameCardRomSize_1GiB},
              cards |-> {GoodFs}, allocFail |-> 0]

Init ==
    /\ impl \in Impls
    /\ task = NoTask
    /\ hw = [present |-> FALSE, gen |-> 0, valid |-> FALSE, event |-> FALSE,
             rom_size |-> 0, fs |-> GoodFs]
    /\ g = GInit
    /\ mutex = ""
    /\ det = DetInit
    /\ rd = [r \in Readers |-> NoRead]
    /\ cl = [c \in Clients |-> ClientInit]
    /\ mainpc = "idle"
    /\ input = InputInit

\* The lifecycle thread's positions right after gamecardInitialize returned
\* true or false and after gamecardExit returned.
MainReturned == {"init_ok", "init_failed", "exit_done"}

\* A public call has returned and its caller has not yet taken the result.
Pending ==
    \/ \E c \in Clients : cl[c].pc = "done"
    \/ mainpc \in MainReturned

\* The interface is initialized (the service guard's reference count in
\* gamecard.c, g_gamecardInterfaceInit in part_000).
Initialized == IF impl = "gamecard_c" THEN g.refCnt > 0 ELSE g.gamecardInterfaceInit

\* ----------------------------------------------------------- the card slot

\* A card is pushed into the slot; the kernel event is signalled once the
\* notifier's event has been retrieved.
CardInsert ==
    /\ ~Pending
    /\ ~hw.present
    /\ hw.gen < MaxInsertions
    /\ \E v \in BOOLEAN, b \in input.romSizes, f \in input.cards :
         hw' = [present |-> TRUE, gen |-> hw.gen + 1, valid |-> v,
                event |-> hw.event \/ g.loadKernelEvent, rom_size |-> b,
                fs |-> f]
    /\ UNCHANGED <<impl, task, g, mutex, det, rd, cl, mainpc, input>>

\* The card is pulled out.
CardRemove ==
    /\ ~Pending
    /\ hw.present
    /\ hw' = [hw EXCEPT !.present = FALSE, !.event = hw.event \/ g.loadKernelEvent]
    /\ cl' = [c \in Clients |->
                IF cl[c].pc \in {"lock", "reading"} THEN [cl[c] EXCEPT !.removed = TRUE] ELSE cl[c]]
    /\ UNCHANGED <<impl, task, g, mutex, det, rd, mainpc, input>>

\* ------------------------------------------------- initialize and exit

\* The resources of the interface as the operating system sees them: held
\* ones are reachable through the globals, leaked ones are live with no
\* global left that names them, misuse collects releases of a resource that
\* is not held (double close, double free, join of no thread).
Resources == {"buf", "devop", "notifier", "kevent", "thread"}

\* malloc, fsOpenDeviceOperator, fsOpenGameCardDetectionEventNotifier,
\* fsEventNotifierGetEventHandle, thrd_create storing their result in the
\* resource's global: what the global named before is lost.
Acquire(G, r) ==
    [G EXCEPT !.leaked = IF r \in G.held THEN @ \cup {r} ELSE @,
              !.held = @ \cup {r}]

\* free, fsDeviceOperatorClose, fsEventNotifierClose, eventClose, thrd_join.
Release(G, r) ==
    [G EXCEPT !.misuse = IF r \in G.held THEN @ ELSE @ \cup {r},
              !.held = @ \ {r}]

\* The acquisition steps of gamecardInitialize / _gamecardInitialize, the
\* first failing at step fail (0: none fails): 1 read buffer, 2 device
\* operator, 3 event notifier, 4 kernel event, 5 detection thread.
InitializeSteps(G, fail) ==
    LET reach(k) == fail = 0 \/ fail > k
        S1 == IF reach(1)
              THEN [Acquire(G, "buf") EXCEPT
                      !.gameCardReadBuf =
                          [i \in 1..GAMECARD_READ_BUFFER_SIZE |-> Untouched]]
              ELSE [G EXCEPT !.gameCardReadBuf = <<>>,
                             !.leaked = IF "buf" \in G.held THEN @ \cup {"buf"} ELSE @,
                             !.held = @ \ {"buf"}]
        S2 == IF reach(2)
              THEN [Acquire(S1, "devop") EXCEPT !.openDeviceOperator = TRUE]
              ELSE S1
        S3 == IF reach(3)
              THEN [Acquire(S2, "notifier") EXCEPT !.openEventNotifier = TRUE]
              ELSE S2
        S4 == IF reach(4)
              THEN [Acquire(S3, "kevent") EXCEPT
                      !.loadKernelEvent = TRUE,
                      !.exitEvent = FALSE,
                      !.statusChangeEvent = IF impl = "part_000" THEN FALSE ELSE @]
              ELSE S3
    IN  IF reach(5)
        THEN [Acquire(S4, "thread") EXCEPT !.gameCardDetectionThreadCreated = TRUE]
        ELSE IF reach(4) THEN [S4 EXCEPT !.gameCardDetectionThreadCreated = FALSE]
        ELSE S4

\* The resource releases of gamecardExit / _gamecardCleanup, each behind
\* its flag (the read buffer behind its pointer); the thread is joined
\* first when there is one.
CleanupResources(G) ==
    LET C1 == IF G.gameCardDetectionThreadCreated
              THEN [Release(G, "thread") EXCEPT !.gameCardDetectionThreadCreated = FALSE]
              ELSE G
        C2 == IF C1.loadKernelEvent
              THEN [Release(C1, "kevent") EXCEPT !.loadKernelEvent = FALSE]
              ELSE C1
        C3 == IF C2.openEventNotifier
              THEN [Release(C2, "notifier") EXCEPT !.openEventNotifier = FALSE]
              ELSE C2
        C4 == IF C3.openDeviceOperator
              THEN [Release(C3, "devop") EXCEPT !.openDeviceOperator = FALSE]
              ELSE C3
    IN  IF C4.gameCardReadBuf # <<>>
        THEN [Release(C4, "buf") EXCEPT !.gameCardReadBuf = <<>>]
        ELSE C4

\* An initialize that acquires everything whatever the interface flag or
\* the guard's reference count says.
gamecardInitializeAgain ==
    /\ ~Pending
    /\ mainpc = "idle"
    /\ \E fail \in input.faults :
         IF impl = "part_000"
         THEN /\ mutex = ""
              /\ g' = [InitializeSteps(g, fail) EXCEPT
                         !.gamecardInterfaceInit = (fail = 0)]
              /\ det' = IF fail = 0 THEN [DetInit EXCEPT !.pc = "start"] ELSE det
              /\ mainpc' = IF fail = 0 THEN "init_ok" ELSE "init_failed"
         ELSE /\ g.refCnt < MaxRefs
              /\ IF fail = 0
                 THEN g' = [InitializeSteps(g, 0) EXCEPT !.refCnt = g.refCnt + 1]
                 ELSE g' = CleanupResources(InitializeSteps(g, fail))
              /\ det' = IF fail = 0 THEN [DetInit EXCEPT !.pc = "start"] ELSE det
              /\ mainpc' = IF fail = 0 THEN "init_ok" ELSE "init_failed"
    /\ hw' = [hw EXCEPT !.event = IF g'.loadKernelEvent THEN hw.event ELSE FALSE]
    /\ UNCHANGED <<impl, task, mutex, rd, cl, input>>

\* part_000: gamecardInitialize, under g_gamecardMutex; every failure
\* leaves through the out label, which unlocks and returns.
\* gamecard.c: the service guard's gamecardInitialize around
\* _gamecardInitialize; a failure runs _gamecardCleanup, which has no
\* thread to join.
gamecardInitialize ==
    /\ ~Pending
    /\ mainpc = "idle"
    /\ \E fail \in input.faults :
         IF impl = "part_000"
         THEN /\ mutex = ""
              /\ IF g.gamecardInterfaceInit THEN g' = g
                 ELSE g' = [InitializeSteps(g, fail) EXCEPT
                              !.gamecardInterfaceInit = (fail = 0)]
              /\ det' = IF ~g.gamecardInterfaceInit /\ fail = 0
                        THEN [DetInit EXCEPT !.pc = "start"] ELSE det
              /\ mainpc' = IF g.gamecardInterfaceInit \/ fail = 0
                           THEN "init_ok" ELSE "init_failed"
         ELSE /\ g.refCnt < MaxRefs
              /\ IF g.refCnt > 0 THEN g' = [g EXCEPT !.refCnt = g.refCnt + 1]
                 ELSE IF fail = 0
                 THEN g' = [InitializeSteps(g, 0) EXCEPT !.refCnt = 1]
                 ELSE g' = CleanupResources(InitializeSteps(g, fail))
              /\ det' = IF g.refCnt = 0 /\ fail = 0
                        THEN [DetInit EXCEPT !.pc = "start"] ELSE det
              /\ mainpc' = IF g.refCnt > 0 \/ fail = 0
                           THEN "init_ok" ELSE "init_failed"
    /\ hw' = [hw EXCEPT !.event = IF g'.loadKernelEvent THEN hw.event ELSE FALSE]
    /\ UNCHANGED <<impl, task, mutex, rd, cl, input>>

\* gamecardExit up to thrd_join: part_000 takes g_gamecardMutex and keeps it;
\* gamecard.c drops the guard's reference and cleans up on the last one.
\* With a detection thread, the exit event is signalled and the caller
\* waits in thrd_join.
gamecardExitBegin ==
    /\ ~Pending
    /\ mainpc = "idle"
    /\ IF impl = "part_000"
       THEN /\ mutex = ""
            /\ IF g.gameCardDetectionThreadCreated
               THEN /\ mutex' = Main
                    /\ g' = [g EXCEPT !.exitEvent = TRUE]
                    /\ mainpc' = "join"
               ELSE /\ g' = [CleanupResources(g) EXCEPT !.gamecardInterfaceInit = FALSE]
                    /\ mainpc' = "exit_done"
                    /\ UNCHANGED mutex
       ELSE /\ UNCHANGED mutex
            /\ \A c \in Clients : cl[c].pc = "idle"
            /\ IF g.refCnt = 1
               THEN IF g.gameCardDetectionThreadCreated
                    THEN /\ g' = [g EXCEPT !.refCnt = 0, !.exitEvent = TRUE]
                         /\ mainpc' = "join"
                    ELSE /\ g' = [CleanupResources(g) EXCEPT !.refCnt = 0]
                         /\ mainpc' = "exit_done"
               ELSE /\ g' = [g EXCEPT !.refCnt = IF g.refCnt > 0 THEN g.refCnt - 1 ELSE 0]
                    /\ mainpc' = "exit_done"
    /\ hw' = [hw EXCEPT !.event = IF g'.loadKernelEvent THEN hw.event ELSE FALSE]
    /\ det' = IF mainpc' = "join"
              THEN [det EXCEPT !.atExit =
                      IF ~g.gameCardInserted THEN "NoCard"
                      ELSE IF ~g.gameCardInfoLoaded THEN "Loading"
                      ELSE "Ready"]
              ELSE det
    /\ UNCHANGED <<impl, task, rd, cl, input>>

\* thrd_join returns once the detection thread has ended; the rest of
\* gamecardExit / _gamecardCleanup follows.
gamecardExitJoin ==
    /\ ~Pending
    /\ mainpc = "join"
    /\ det.pc = "done"
    /\ det' = [det EXCEPT !.pc = "off"]
    /\ g' = [CleanupResources(g) EXCEPT !.gamecardInterfaceInit = FALSE]
    /\ mutex' = IF impl = "part_000" THEN "" ELSE mutex
    /\ mainpc' = "exit_done"
    /\ hw' = [hw EXCEPT !.event = FALSE]
    /\ UNCHANGED <<impl, task, rd, cl, input>>

\* The caller of gamecardInitialize / gamecardExit goes on.
MainAck ==
    /\ mainpc \in MainReturned
    /\ mainpc' = "idle"
    /\ det' = [det EXCEPT !.atExit = ""]
    /\ UNCHANGED <<impl, task, hw, g, mutex, rd, cl, input>>

\* -------------------------------------------------- the detection thread

\* gamecardIsInserted: fsDeviceOperatorIsGameCardInserted.
gamecardIsInserted(H) == H.present

\* Where gamecardLoadInfo returns to.
AfterLoad == IF det.phase = "init" THEN "unlock0" ELSE "post"

\* Thread entry.  gamecard.c locks the shared-data mutex before the initial
\* status is sampled; part_000 does not.
DetStart ==
    /\ ~Pending
    /\ det.pc = "start"
    /\ IF impl = "gamecard_c" THEN mutex = "" /\ mutex' = Det ELSE UNCHANGED mutex
    /\ det' = [det EXCEPT !.pc = "sample0"]
    /\ UNCHANGED <<impl, task, hw, g, rd, cl, mainpc, input>>

\* g_gameCardInserted = prev_status = gamecardIsInserted();
DetSampleInitial ==
    /\ ~Pending
    /\ det.pc = "sample0"
    /\ g' = [g EXCEPT !.gameCardInserted = gamecardIsInserted(hw)]
    /\ det' = [det EXCEPT !.prev_status = gamecardIsInserted(hw),
                          !.pc = IF gamecardIsInserted(hw) THEN "load" ELSE "unlock0"]
    /\ UNCHANGED <<impl, task, hw, mutex, rd, cl, mainpc, input>>

\* gamecardLoadInfo up to its first read: the early return when the info is
\* already loaded, then gamecardGetStorageAreasSizes.
DetLoadBegin ==
    /\ ~Pending
    /\ det.pc = "load"
    /\ IF g.gameCardInfoLoaded
       THEN /\ det' = [det EXCEPT !.pc = AfterLoad]
            /\ UNCHANGED <<g, rd>>
       ELSE LET s == gamecardGetStorageAreasSizes(g, hw)
            IN  IF ~s.ok
                THEN /\ g' = gamecardFreeInfo(s.G)
                     /\ det' = [det EXCEPT !.pc = AfterLoad, !.failed = hw.gen]
                     /\ UNCHANGED rd
                ELSE /\ g' = s.G
                     /\ det' = [det EXCEPT !.pc = "load_read", !.step = 1]
                     /\ rd' = [rd EXCEPT ![Det] = NewRead(LoadPlan(hw)[1].size, LoadPlan(hw)[1].off)]
    /\ UNCHANGED <<impl, task, hw, mutex, cl, mainpc, input>>

\* The calloc gamecardLoadInfo makes once the data of its step-th read has
\* passed the checks, by its position among the callocs of the load: 1 the
\* root header, 2 the partitions array, 2 + i the header of partition i;
\* 0: none.
LoadAllocation(H, step) ==
    CASE LoadPlan(H)[step].kind = "header" -> 1
      [] LoadPlan(H)[step].kind = "root" -> 2
      [] LoadPlan(H)[step].kind = "partial" -> 2 + LoadPlan(H)[step].part
      [] OTHER -> 0

\* gamecardLoadInfo after the read of step det.step has returned with
\* reader state R: the validation of what was read, the next read, or the
\* end of the load; alloc: the calloc of the load that returns NULL (0:
\* none).  Returns [G, R, pc, step]; pc "ret": the load returns.
LoadAfterRead(G, H, R, step, alloc) ==
    LET p == LoadPlan(H)[step]
        content == IF R.out = ImageRange(H.gen, p.off, p.size) THEN H.gen ELSE Garbage
        stored == LoadStore(G, H, step, content)
    IN  IF R.status # "ok"
        THEN [G |-> gamecardFreeInfo(G), R |-> NoRead, pc |-> "ret", step |-> 0]
        ELSE IF p.checked /\ (content = Garbage \/ ~LoadCheck(stored, H, p))
        THEN [G |-> gamecardFreeInfo(stored), R |-> NoRead, pc |-> "ret", step |-> 0]
        ELSE IF alloc # 0 /\ LoadAllocation(H, step) = alloc
        THEN [G |-> gamecardFreeInfo(stored), R |-> NoRead, pc |-> "ret", step |-> 0]
        ELSE IF step = Len(LoadPlan(H))
        THEN [G |-> [stored EXCEPT !.gameCardInfoLoaded = TRUE],
              R |-> NoRead, pc |-> "ret", step |-> 0]
        ELSE IF LoadPlan(H)[step + 1].kind = "partial"
                /\ H.fs.parts[LoadPlan(H)[step + 1].part].size = 0
        THEN \* the root entry of the next partition has no size
             [G |-> gamecardFreeInfo(stored), R |-> NoRead, pc |-> "ret", step |-> 0]
        ELSE [G |-> stored,
              R |-> NewRead(LoadPlan(H)[step + 1].size, LoadPlan(H)[step + 1].off),
              pc |-> "load_read", step |-> step + 1]

\* A read of gamecardLoadInfo (lock = false) up to gamecardOpenStorageArea.
DetLoadPrepare ==
    /\ ~Pending
    /\ det.pc = "load_read"
    /\ rd[Det].status = "run"
    /\ Head(rd[Det].stack).st # "read"
    /\ LET r == ReadPrepare(g, hw, rd[Det])
       IN  IF r.R.status = "run"
           THEN /\ g' = r.G
                /\ rd' = [rd EXCEPT ![Det] = r.R]
                /\ UNCHANGED det
           ELSE LET a == LoadAfterRead(r.G, hw, r.R, det.step, input.allocFail)
                IN  /\ g' = a.G
                    /\ rd' = [rd EXCEPT ![Det] = a.R]
                    /\ det' = [det EXCEPT !.pc = IF a.pc = "ret" THEN AfterLoad ELSE a.pc,
                                          !.step = a.step,
                                          !.failed = IF a.pc = "ret" /\ ~a.G.gameCardInfoLoaded
                                                     THEN hw.gen ELSE det.failed]
    /\ UNCHANGED <<impl, task, hw, mutex, cl, mainpc, input>>

\* The fsStorageRead of a read of gamecardLoadInfo and what follows it.
DetLoadTransfer ==
    /\ ~Pending
    /\ det.pc = "load_read"
    /\ rd[Det].status = "run"
    /\ Head(rd[Det].stack).st = "read"
    /\ LET r == ReadTransfer(g, hw, rd[Det], FALSE)
       IN  IF r.R.status = "run"
           THEN /\ g' = r.G
                /\ rd' = [rd EXCEPT ![Det] = r.R]
                /\ UNCHANGED det
           ELSE LET a == LoadAfterRead(r.G, hw, r.R, det.step, input.allocFail)
                IN  /\ g' = a.G
                    /\ rd' = [rd EXCEPT ![Det] = a.R]
                    /\ det' = [det EXCEPT !.pc = IF a.pc = "ret" THEN AfterLoad ELSE a.pc,
                                          !.step = a.step,
                                          !.failed = IF a.pc = "ret" /\ ~a.G.gameCardInfoLoaded
                                                     THEN hw.gen ELSE det.failed]
    /\ UNCHANGED <<impl, task, hw, mutex, cl, mainpc, input>>

\* End of the initial phase: gamecard.c unlocks the mutex, part_000 signals
\* the status change event.
DetInitialDone ==
    /\ ~Pending
    /\ det.pc = "unlock0"
    /\ IF impl = "gamecard_c"
       THEN mutex' = "" /\ UNCHANGED g
       ELSE g' = [g EXCEPT !.statusChangeEvent = TRUE] /\ UNCHANGED mutex
    /\ det' = [det EXCEPT !.pc = "wait", !.phase = "event"]
    /\ UNCHANGED <<impl, task, hw, rd, cl, mainpc, input>>

\* waitMulti returns index 0: the (auto-clearing) kernel event.
DetWaitCardEvent ==
    /\ ~Pending
    /\ det.pc = "wait"
    /\ hw.event
    /\ hw' = [hw EXCEPT !.event = FALSE]
    /\ det' = [det EXCEPT !.pc = "lock"]
    /\ UNCHANGED <<impl, task, g, mutex, rd, cl, mainpc, input>>

\* waitMulti returns index 1: the exit event (auto-clearing in part_000).
DetWaitExitEvent ==
    /\ ~Pending
    /\ det.pc = "wait"
    /\ g.exitEvent
    /\ g' = [g EXCEPT !.exitEvent = (impl = "gamecard_c")]
    /\ det' = [det EXCEPT !.pc = "cleanup"]
    /\ UNCHANGED <<impl, task, hw, mutex, rd, cl, mainpc, input>>

\* mutexLock / mtx_lock at the head of the event handling.
DetLock ==
    /\ ~Pending
    /\ det.pc = "lock"
    /\ mutex = ""
    /\ mutex' = Det
    /\ det' = [det EXCEPT !.pc = "sample"]
    /\ UNCHANGED <<impl, task, hw, g, rd, cl, mainpc, input>>

\* A handler that loads whenever a card is seen, its info loaded before or not.
ShouldLoadWheneverInserted(prev_status, inserted) == inserted

\* The event handler's test for loading the info:
\* !prev_status && g_gameCardInserted.
ShouldLoad(prev_status, inserted) == ~prev_status /\ inserted

\* g_gameCardInserted = gamecardIsInserted(); then the load branch
\* (!prev_status && inserted) or gamecardFreeInfo().
DetSample ==
    /\ ~Pending
    /\ det.pc = "sample"
    /\ IF ShouldLoad(det.prev_status, gamecardIsInserted(hw))
       THEN /\ g' = [g EXCEPT !.gameCardInserted = TRUE]
            /\ det' = [det EXCEPT !.pc = "sleep"]
       ELSE /\ g' = gamecardFreeInfo([g EXCEPT !.gameCardInserted = gamecardIsInserted(hw)])
            /\ det' = [det EXCEPT !.pc = "post"]
    /\ UNCHANGED <<impl, task, hw, mutex, rd, cl, mainpc, input>>

\* utilsSleep(GAMECARD_ACCESS_WAIT_TIME)
DetSleep ==
    /\ ~Pending
    /\ det.pc = "sleep"
    /\ det' = [det EXCEPT !.pc = "load"]
    /\ UNCHANGED <<impl, task, hw, g, mutex, rd, cl, mainpc, input>>

\* prev_status = g_gameCardInserted; unlock; part_000 then signals the
\* status change event.
DetPost ==
    /\ ~Pending
    /\ det.pc = "post"
    /\ det' = [det EXCEPT !.prev_status = g.gameCardInserted, !.pc = "wait"]
    /\ mutex' = ""
    /\ g' = IF impl = "part_000" THEN [g EXCEPT !.statusChangeEvent = TRUE] ELSE g
    /\ UNCHANGED <<impl, task, hw, rd, cl, mainpc, input>>

\* After the loop: gamecard.c locks the mutex for the final cleanup,
\* part_000 does not.
DetCleanupEnter ==
    /\ ~Pending
    /\ det.pc = "cleanup"
    /\ IF impl = "gamecard_c" THEN mutex = "" /\ mutex' = Det ELSE UNCHANGED mutex
    /\ det' = [det EXCEPT !.pc = "cleanup2"]
    /\ UNCHANGED <<impl, task, hw, g, rd, cl, mainpc, input>>

\* gamecardFreeInfo(); g_gameCardInserted = false; (unlock;) return 0;
DetCleanup ==
    /\ ~Pending
    /\ det.pc = "cleanup2"
    /\ g' = [gamecardFreeInfo(g) EXCEPT !.gameCardInserted = FALSE]
    /\ mutex' = IF impl = "gamecard_c" THEN "" ELSE mutex
    /\ det' = [det EXCEPT !.pc = "done"]
    /\ UNCHANGED <<impl, task, hw, rd, cl, mainpc, input>>

\* ------------------------------------------------------ the public calls

\* The read requests (offset, read_size) the clients of the concurrent
\* specification issue: aligned in the normal area, crossing the area
\* boundary, unaligned and larger than the scratch buffer in the secure
\* area, aligned in the secure area, empty, and past the end.
ReadRequests ==
    { <<0, GAMECARD_MEDIA_UNIT_SIZE>>,
      <<HwAreaSize(GameCardStorageArea_Normal) - 1, 3>>,
      <<HwAreaSize(GameCardStorageArea_Normal) + 1, GAMECARD_READ_BUFFER_SIZE + 2>>,
      <<HwAreaSize(GameCardStorageArea_Normal) + GAMECARD_MEDIA_UNIT_SIZE,
        GAMECARD_MEDIA_UNIT_SIZE>>,
      <<1, 0>>,
      <<HwTotalSize, 1>> }

\* The session mutex exists: part_000's is static, gamecard.c's lives from
\* gamecardCreateDetectionThread to gamecardDestroyDetectionThread.
MutexExists == impl = "part_000" \/ (g.refCnt > 0 /\ g.gameCardDetectionThreadCreated)

\* The cached info is that of the card in the slot.
SessionReady(G, H) ==
    /\ G.gameCardInserted /\ G.gameCardInfoLoaded
    /\ H.present /\ G.gameCardHeader = H.gen

\* gamecardReadStorage / gamecardRead is called; the caller goes on to
\* take the mutex (lock == true).
gamecardReadStorage ==
    /\ ~Pending
    /\ MutexExists
    /\ \E c \in input.users, q \in ReadRequests :
         /\ cl[c].pc = "idle"
         /\ cl' = [cl EXCEPT ![c] = [ClientInit EXCEPT !.pc = "lock",
                                                       !.off = q[1], !.size = q[2]]]
    /\ UNCHANGED <<impl, task, hw, g, mutex, det, rd, mainpc, input>>

\* The request of a client other than c that waits for the mutex in the
\* read call, <<>> if there is none.
Waiting(c) ==
    IF \E e \in Clients \ {c} : cl[e].pc = "lock"
    THEN LET e == CHOOSE e \in Clients \ {c} : cl[e].pc = "lock"
         IN  <<cl[e].off, cl[e].size>>
    ELSE <<>>

\* mutexLock / mtx_lock at the head of gamecardReadStorageArea.
ReadLock ==
    /\ ~Pending
    /\ mutex = ""
    /\ \E c \in Clients :
         /\ cl[c].pc = "lock"
         /\ mutex' = c
         /\ rd' = [rd EXCEPT ![c] = NewRead(cl[c].size, cl[c].off)]
         /\ cl' = [d \in Clients |->
                     IF d = c
                     THEN [cl[c] EXCEPT !.pc = "reading",
                                        !.ready = SessionReady(g, hw),
                                        !.peer = Waiting(c)]
                     ELSE IF cl[d].pc = "lock"
                     THEN [cl[d] EXCEPT !.peer = <<cl[c].off, cl[c].size>>]
                     ELSE cl[d]]
    /\ UNCHANGED <<impl, task, hw, g, det, mainpc, input>>

\* The client record after a step of its read left the reader R: the read
\* goes on, or it returns (and unlocks).  ub: what a read that ran into
\* undefined behaviour returns.
AfterReadStep(C, R, opened, devcall, ub) ==
    LET res == [C.res EXCEPT !.op = "read",
                             !.opened = C.res.opened \/ opened,
                             !.devcall = C.res.devcall \/ devcall,
                             !.wrote = \E i \in 1..Len(R.out) : R.out[i] # Untouched,
                             !.ret = IF R.status = "ub" THEN ub ELSE R.status = "ok"]
    IN  [C EXCEPT !.res = res, !.pc = IF R.status = "run" THEN "reading" ELSE "done"]

\* A client's read up to gamecardOpenStorageArea.
ReadPrepareStep ==
    /\ ~Pending
    /\ \E c \in Clients :
         /\ cl[c].pc = "reading"
         /\ rd[c].status = "run"
         /\ Head(rd[c].stack).st # "read"
         /\ LET r == ReadPrepare(g, hw, rd[c])
                C == AfterReadStep(cl[c], r.R, Head(r.R.stack).st # "call", FALSE, FALSE)
            IN  /\ g' = r.G
                /\ rd' = [rd EXCEPT ![c] = r.R]
                /\ cl' = [cl EXCEPT ![c] = C]
                /\ mutex' = IF C.pc = "done" /\ mutex = c THEN "" ELSE mutex
    /\ UNCHANGED <<impl, task, hw, det, mainpc, input>>

\* The driver fails the next read: the failAt-th of the call.
DriverFault == input.failAt # 0 /\ Len(input.log) + 1 = input.failAt

\* A client's fsStorageRead and what follows it in the same frame.
ReadTransferStep ==
    /\ ~Pending
    /\ \E c \in Clients, ub \in BOOLEAN :
         /\ cl[c].pc = "reading"
         /\ rd[c].status = "run"
         /\ Head(rd[c].stack).st = "read"
         /\ LET r == ReadTransfer(g, hw, rd[c], DriverFault)
                C == AfterReadStep(cl[c], r.R, FALSE, TRUE, ub)
            IN  /\ g' = r.G
                /\ rd' = [rd EXCEPT ![c] = r.R]
                /\ cl' = [cl EXCEPT ![c] = C]
                /\ mutex' = IF C.pc = "done" /\ mutex = c THEN "" ELSE mutex
                /\ input' = IF input.on
                            THEN [input EXCEPT !.log = Append(input.log, r.dcall)]
                            ELSE input
    /\ UNCHANGED <<impl, task, hw, det, mainpc>>

\* The caller takes the result of its call.
Ack ==
    /\ \E c \in Clients :
         /\ cl[c].pc = "done"
         /\ cl' = [cl EXCEPT ![c] = ClientInit]
         /\ rd' = [rd EXCEPT ![c] = NoRead]
    /\ UNCHANGED <<impl, task, hw, g, mutex, det, mainpc, input>>

\* The accessors that test g_gameCardInserted && g_gameCardInfoLoaded and
\* copy a cached field.
CacheGetters ==
    {"gamecardGetHeader", "gamecardGetTotalSize", "gamecardGetTrimmedSize",
     "gamecardGetRomCapacity", "gamecardGetEntryInfoFromHashFileSystemPartition"}

\* The accessors that test g_gameCardInserted && g_gameCardHandle.value and
\* ask the device operator.
DeviceGetters == {"gamecardGetCertificate", "gamecardGetBundledFirmwareUpdateVersion"}

Getters == CacheGetters \cup DeviceGetters

\* Driver: a device operator call on a handle works while the card that
\* issued the handle is in the slot.
fsDeviceOperatorCall(G, H) == H.present /\ G.gameCardHandle = H.gen

\* What accessor op returns on globals G.  found: the looked-up entry
\* exists (entry lookups) / the update partition carries GAMECARD_UPDATE_TID
\* (bundled firmware version).
GetterResult(op, G, H, found) ==
    IF op \in CacheGetters
    THEN LET ok == /\ G.gameCardInserted /\ G.gameCardInfoLoaded
                   /\ (op = "gamecardGetEntryInfoFromHashFileSystemPartition" => found)
         IN  [op |-> op, ret |-> ok, wrote |-> ok, devcall |-> FALSE, opened |-> FALSE]
    ELSE LET go == G.gameCardInserted /\ G.gameCardHandle # 0
             rc == go /\ fsDeviceOperatorCall(G, H)
             ok == rc /\ (op = "gamecardGetBundledFirmwareUpdateVersion" => found)
         IN  [op |-> op, ret |-> ok,
              wrote |-> IF op = "gamecardGetCertificate" THEN rc ELSE ok,
              devcall |-> go, opened |-> FALSE]

\* gamecardIsReady: lock, g_gameCardInserted && g_gameCardInfoLoaded, unlock.
gamecardIsReady ==
    /\ ~Pending
    /\ MutexExists
    /\ mutex = ""
    /\ \E c \in input.users :
         /\ cl[c].pc = "idle"
         /\ cl' = [cl EXCEPT ![c] =
                     [ClientInit EXCEPT !.pc = "done",
                        !.res = [NoResult EXCEPT !.op = "gamecardIsReady",
                                   !.ret = g.gameCardInserted /\ g.gameCardInfoLoaded]]]
    /\ UNCHANGED <<impl, task, hw, g, mutex, det, rd, mainpc, input>>

\* One of the accessors: lock, test, copy or device call, unlock.
gamecardGet ==
    /\ ~Pending
    /\ MutexExists
    /\ mutex = ""
    /\ \E c \in input.users, op \in Getters, found \in BOOLEAN :
         /\ cl[c].pc = "idle"
         /\ cl' = [cl EXCEPT ![c] =
                     [ClientInit EXCEPT !.pc = "done",
                                        !.res = GetterResult(op, g, hw, found)]]
    /\ UNCHANGED <<impl, task, hw, g, mutex, det, rd, mainpc, input>>

\* ------------------------------------------------------ specifications

Next ==
    \/ CardInsert
    \/ CardRemove
    \/ gamecardInitialize
    \/ gamecardExitBegin
    \/ gamecardExitJoin
    \/ MainAck
    \/ DetStart
    \/ DetSampleInitial
    \/ DetLoadBegin
    \/ DetLoadPrepare
    \/ DetLoadTransfer
    \/ DetInitialDone
    \/ DetWaitCardEvent
    \/ DetWaitExitEvent
    \/ DetLock
    \/ DetSample
    \/ DetSleep
    \/ DetPost
    \/ DetCleanupEnter
    \/ DetCleanup
    \/ gamecardReadStorage
    \/ ReadLock
    \/ ReadPrepareStep
    \/ ReadTransferStep
    \/ gamecardIsReady
    \/ gamecardGet
    \/ Ack

\* The whole interface: card slot, lifecycle, detection thread, clients.
Spec == Init /\ [][Next]_vars

\* ------------------------------------------- a session with a loaded card

\* gamecardReadStorageArea run from reader state R to its return.
RECURSIVE RunRead(_, _, _)
RunRead(G, H, R) ==
    IF R.status # "run" THEN [G |-> G, R |-> R]
    ELSE IF Head(R.stack).st # "read"
    THEN LET r == ReadPrepare(G, H, R) IN RunRead(r.G, H, r.R)
    ELSE LET r == ReadTransfer(G, H, R, FALSE) IN RunRead(r.G, H, r.R)

\* gamecardLoadInfo from its step-th read on, nothing interleaved.
RECURSIVE RunLoad(_, _, _)
RunLoad(G, H, step) ==
    LET r == RunRead(G, H, NewRead(LoadPlan(H)[step].size, LoadPlan(H)[step].off))
        a == LoadAfterRead(r.G, H, r.R, step, 0)
    IN  IF a.step = 0 THEN a.G ELSE RunLoad(a.G, H, a.step)

\* The slot with the first card in it, a valid one, its event consumed.
HwLoaded == [present |-> TRUE, gen |-> 1, valid |-> TRUE, event |-> FALSE,
             rom_size |-> GameCardRomSize_1GiB, fs |-> GoodFs]

\* The globals after gamecardInitialize succeeded with HwLoaded in the
\* slot and the detection thread finished its initial load.
GLoaded(i) ==
    LET G0 == [InitializeSteps(GInit, 0) EXCEPT
                 !.gamecardInterfaceInit = (i = "part_000"),
                 !.refCnt = IF i = "gamecard_c" THEN 1 ELSE 0,
                 !.statusChangeEvent = (i = "part_000"),
                 !.gameCardInserted = TRUE]
        s == gamecardGetStorageAreasSizes(G0, HwLoaded)
    IN  RunLoad(s.G, HwLoaded, 1)

\* The detection thread waiting in waitMulti with a card seen.
DetWaiting == [pc |-> "wait", prev_status |-> TRUE, phase |-> "event", step |-> 0,
               failed |-> 0, atExit |-> ""]

\* One read of a loaded card, any offset and size a u64 holds, the driver
\* failing none or one of its reads; the call holds the mutex.
InitRead ==
    /\ impl \in Impls
    /\ task = NoTask
    /\ hw = HwLoaded
    /\ g = GLoaded(impl)
    /\ mutex = "c1"
    /\ det = DetWaiting
    /\ mainpc = "idle"
    /\ \E offset \in 0..(U64_MOD - 1), read_size \in 0..(U64_MOD - 1) :
         /\ rd = [r \in Readers |-> IF r = "c1" THEN NewRead(read_size, offset) ELSE NoRead]
         /\ cl = [c \in Clients |->
                    IF c = "c1"
                    THEN [ClientInit EXCEPT !.pc = "reading", !.off = offset,
                                            !.size = read_size, !.ready = TRUE]
                    ELSE ClientInit]
    /\ \E k \in 0..MaxFaultAt :
         input = [failAt |-> k, log |-> <<>>, on |-> TRUE, users |-> {"c1"},
                  faults |-> {0}, romSizes |-> {GameCardRomSize_1GiB},
                  cards |-> {GoodFs}, allocFail |-> 0]

NextRead ==
    \/ ReadPrepareStep
    \/ ReadTransferStep

\* gamecardReadStorageArea alone, on every input.
SpecRead == InitRead /\ [][NextRead]_vars

\* Two clients and a loaded card that stays in the slot.
InitReaders ==
    /\ impl \in Impls
    /\ task = NoTask
    /\ hw = HwLoaded
    /\ g = GLoaded(impl)
    /\ mutex = ""
    /\ det = DetWaiting
    /\ mainpc = "idle"
    /\ rd = [r \in Readers |-> NoRead]
    /\ cl = [c \in Clients |-> ClientInit]
    /\ input = [InputInit EXCEPT !.users = Clients]

NextReaders ==
    \/ gamecardReadStorage
    \/ ReadLock
    \/ ReadPrepareStep
    \/ ReadTransferStep
    \/ Ack

\* Concurrent reads of a loaded card.
SpecReaders == InitReaders /\ [][NextReaders]_vars

\* ------------------------------------------------------------------ claims

\* Client c's call has returned from a read.
ReadReturned(c) == cl[c].pc = "done" /\ cl[c].res.op = "read"

\* No driver read of the call was made to fail.
DriverSucceeds == input.failAt = 0 \/ input.failAt > Len(input.log)

\* C1: a read with read_size > 0 and offset + read_size within the two
\* areas, issued with a card in the slot and no driver failure, returns
\* true and the output holds exactly bytes [offset, offset + read_size) of
\* the image "normal area followed by secure area".
C1_ReadExact ==
    \A c \in Clients :
        ( /\ ReadReturned(c)
          /\ cl[c].ready
          /\ cl[c].size > 0
          /\ cl[c].off + cl[c].size <= HwTotalSize
          /\ DriverSucceeds )
        => /\ cl[c].res.ret
           /\ rd[c].out = ImageRange(hw.gen, cl[c].off, cl[c].size)

\* Positions of the detection thread whose next step reads or writes the
\* session's shared state.
DetAccessPcs == {"sample0", "load", "load_read", "sample", "post", "cleanup2"}

\* C2: every read or write of the session's shared state happens with the
\* session mutex held by the thread that makes it: a client inside the
\* read, and the detection thread in its initial load, in each event step
\* and in its final cleanup.
C2_MutexHeld ==
    /\ det.pc \in DetAccessPcs => mutex = Det
    /\ \A c \in Clients : cl[c].pc = "reading" => mutex = c

\* C3: no reachable state has gamecardExit waiting in thrd_join while the
\* detection thread waits for the mutex gamecardExit holds.
C3_NoJoinDeadlock == ~(mainpc = "join" /\ det.pc = "lock" /\ mutex = Main)

\* Every piece gamecardLoadInfo caches is there and is the card's.
InfoComplete(G) ==
    /\ G.gameCardHeader \notin {0, Garbage}
    /\ G.gameCardStorageNormalAreaSize = HwAreaSize(GameCardStorageArea_Normal)
    /\ G.gameCardStorageSecureAreaSize = HwAreaSize(GameCardStorageArea_Secure)
    /\ G.gameCardCapacity # 0
    /\ G.gameCardHfsRootHeader \notin {0, Garbage}
    /\ G.gameCardHfsPartitions \notin {0, Garbage}

\* C4: gamecardIsReady returns true only with a card seen in the slot and
\* its info completely and successfully loaded, never while a load runs.
C4_ReadyOnlyLoaded ==
    \A c \in Clients :
        (cl[c].pc = "done" /\ cl[c].res.op = "gamecardIsReady" /\ cl[c].res.ret)
        => /\ g.gameCardInserted
           /\ InfoComplete(g)
           /\ det.pc \notin {"load", "load_read"}

\* The session would answer gamecardIsReady with true.
IsReady(G) == G.gameCardInserted /\ G.gameCardInfoLoaded

\* C5: whenever no card is ready, each accessor returns false, writes
\* nothing to its output and issues no device call.
C5_NotReadyGettersFail ==
    \A c \in Clients :
        (cl[c].pc = "done" /\ cl[c].res.op \in Getters /\ ~IsReady(g))
        => ~cl[c].res.ret /\ ~cl[c].res.wrote /\ ~cl[c].res.devcall

\* totalSize = normalAreaSize + secureAreaSize of the session.
TotalSize(G) == G.gameCardStorageNormalAreaSize + G.gameCardStorageSecureAreaSize

\* C6: a read with read_size = 0, offset >= totalSize or
\* offset + read_size > totalSize is rejected: it returns false, opens no
\* storage area, makes no driver read and leaves the output untouched.
C6_ReadRejected ==
    \A c \in Clients :
        ( /\ ReadReturned(c)
          /\ \/ cl[c].size = 0
             \/ cl[c].off >= TotalSize(g)
             \/ cl[c].off + cl[c].size > TotalSize(g) )
        => /\ ~cl[c].res.ret
           /\ ~cl[c].res.opened
           /\ ~cl[c].res.devcall
           /\ ~cl[c].res.wrote

\* The ranges of requests p and q (<<offset, read_size>>) do not meet.
Disjoint(p, q) == p[1] + p[2] <= q[1] \/ q[1] + q[2] <= p[1]

\* C7: of two reads of disjoint ranges that are in the call at the same
\* time, each returns true with exactly the bytes of its own range.
C7_ConcurrentReadsExact ==
    \A c \in Clients :
        ( /\ ReadReturned(c)
          /\ cl[c].ready
          /\ cl[c].peer # <<>>
          /\ cl[c].size > 0 /\ cl[c].off + cl[c].size <= HwTotalSize
          /\ cl[c].peer[2] > 0 /\ cl[c].peer[1] + cl[c].peer[2] <= HwTotalSize
          /\ Disjoint(<<cl[c].off, cl[c].size>>, cl[c].peer) )
        => /\ cl[c].res.ret
           /\ rd[c].out = ImageRange(hw.gen, cl[c].off, cl[c].size)

\* What gamecardFreeInfo and gamecardOpenStorageArea free or replace: the
\* cached info and the open storage area.
Cached(G) ==
    <<G.gameCardInfoLoaded, G.gameCardHeader, G.gameCardCapacity,
      G.gameCardStorageNormalAreaSize, G.gameCardStorageSecureAreaSize,
      G.gameCardHfsRootHeader, G.gameCardHfsPartitions,
      G.gameCardHandle, G.gameCardStorage, G.gameCardStorageCurrentArea>>

\* C8: a read during which the card left the slot returns false; a read
\* never returns true with bytes that are partial, stale or not the card's;
\* and while a read holds the mutex no step of the detection thread frees
\* or replaces the cached info or the open storage area.
C8_RemovalFailsRead ==
    [][ /\ \A c \in Clients :
             (cl'[c].pc = "done" /\ cl'[c].res.op = "read" /\ cl'[c].removed)
             => ~cl'[c].res.ret
        /\ \A c \in Clients :
             (cl'[c].pc = "done" /\ cl'[c].res.op = "read" /\ cl'[c].res.ret)
             => rd'[c].out = ImageRange(g.gameCardStorage.gen, cl'[c].off, cl'[c].size)
        /\ ((\E c \in Clients : cl[c].pc = "reading" /\ mutex = c) /\ det' # det)
             => Cached(g') = Cached(g)
      ]_vars

\* Where the session is on the spec's state machine.
SessionState(D, G) ==
    IF D.pc \in {"off", "done"} THEN "Uninitialized"
    ELSE IF ~G.gameCardInserted THEN "NoCard"
    ELSE IF ~G.gameCardInfoLoaded THEN "Loading"
    ELSE "Ready"

\* The moves of the state machine; Loading -> NoCard is the card leaving
\* before its info is loaded.
SessionMoves ==
    { <<"Uninitialized", "NoCard">>, <<"NoCard", "Loading">>, <<"Loading", "Ready">>,
      <<"Ready", "NoCard">>, <<"Loading", "NoCard">>,
      <<"NoCard", "Uninitialized">>, <<"Loading", "Uninitialized">>,
      <<"Ready", "Uninitialized">> }

\* C9: the session only moves along the state machine; info that is ready
\* is discarded only when the card is seen removed or on shutdown, and info
\* is loaded only after a not-inserted -> inserted change or at thread start.
C9_SessionStateMachine ==
    [][ /\ SessionState(det', g') # SessionState(det, g)
           => <<SessionState(det, g), SessionState(det', g')>> \in SessionMoves
        /\ (IsReady(g) /\ ~g'.gameCardInfoLoaded)
           => (~g'.gameCardInserted \/ det.pc = "cleanup2")
        /\ (~g.gameCardInfoLoaded /\ g'.gameCardInfoLoaded)
           => (det.phase = "init" \/ ~det.prev_status)
      ]_vars

\* Nothing is in progress: the detection thread waits in waitMulti, no
\* event is pending, nobody is inside a call or a shutdown.
Settled ==
    /\ det.pc = "wait"
    /\ ~hw.event /\ ~g.exitEvent
    /\ mainpc = "idle"
    /\ \A c \in Clients : cl[c].pc \in {"idle", "done"}

\* C10: with a valid card in the slot and every pending event processed,
\* gamecardIsReady returns true.
C10_ReadyOnceSettled ==
    \A c \in Clients :
        ( /\ cl[c].pc = "done" /\ cl[c].res.op = "gamecardIsReady"
          /\ Settled
          /\ hw.present /\ hw.valid )
        => cl[c].res.ret

\* The card in the slot is the one whose info load failed in this thread.
FailedCardStays == det.failed # 0 /\ det.failed = hw.gen /\ hw.present

\* C11: after an info load failed, the detection thread makes no further
\* load attempt and the session is not ready for as long as the same card
\* stays in the slot.
C11_NoRetryAfterFailedLoad ==
    FailedCardStays
    => /\ ~IsReady(g)
       /\ det.pc \notin {"sleep", "load", "load_read"}

\* A failed card is still in the slot and the thread has just handled a
\* later event without loading (prev_status was already true).
C11_Witness ==
    /\ FailedCardStays
    /\ det.phase = "event" /\ det.pc = "post" /\ det.prev_status
    /\ ~IsReady(g)

\* This step is the event handler's ueventSignal(&g_gameCardStatusChangeEvent).
StatusChangeRaisedByHandler ==
    /\ impl = "part_000"
    /\ det.pc = "post" /\ det'.pc = "wait"
    /\ g'.statusChangeEvent

\* C12: the status-change notification is raised only for a confirmed
\* presence transition: an event after which the sampled presence equals
\* the previous presence raises none.
C12_NotifyOnlyOnTransition ==
    [][ StatusChangeRaisedByHandler => det.prev_status # g.gameCardInserted ]_vars

\* This step raises the status-change notification: at the end of the
\* thread's initial phase or after a handled event.
StatusChangeRaised ==
    /\ impl = "part_000"
    /\ det.pc \in {"unlock0", "post"} /\ det'.pc = "wait"
    /\ g'.statusChangeEvent

\* The cache holds a completely loaded card.
CacheLoaded(G) == G.gameCardInserted /\ G.gameCardInfoLoaded /\ InfoComplete(G)

\* The cache is fully cleared: what gamecardFreeInfo leaves.
CacheCleared(G) == Cached(G) = Cached(gamecardFreeInfo(GInit))

\* C13: when the status-change notification is raised the detection thread
\* has released the mutex and the cache is consistent: a completely loaded
\* card or a fully cleared not-ready state.
C13_NotifyAfterConsistentCache ==
    [][ StatusChangeRaised
        => /\ mutex' # Det
           /\ CacheLoaded(g') \/ CacheCleared(g') ]_vars

\* ------------------------------------------------- lifecycle with faults

\* No client; any acquisition step of gamecardInitialize may fail.
InitLifecycle ==
    /\ impl \in Impls
    /\ task = NoTask
    /\ hw = [present |-> FALSE, gen |-> 0, valid |-> FALSE, event |-> FALSE,
             rom_size |-> 0, fs |-> GoodFs]
    /\ g = GInit
    /\ mutex = ""
    /\ det = DetInit
    /\ rd = [r \in Readers |-> NoRead]
    /\ cl = [c \in Clients |-> ClientInit]
    /\ mainpc = "idle"
    /\ input = [InputInit EXCEPT !.users = {}, !.faults = 0..5]

NextLifecycle ==
    \/ CardInsert
    \/ CardRemove
    \/ gamecardInitialize
    \/ gamecardExitBegin
    \/ gamecardExitJoin
    \/ MainAck
    \/ DetStart
    \/ DetSampleInitial
    \/ DetLoadBegin
    \/ DetLoadPrepare
    \/ DetLoadTransfer
    \/ DetInitialDone
    \/ DetWaitCardEvent
    \/ DetWaitExitEvent
    \/ DetLock
    \/ DetSample
    \/ DetSleep
    \/ DetPost
    \/ DetCleanupEnter
    \/ DetCleanup

\* Initialize and exit in any order, with failing acquisitions, around the
\* detection thread and the card slot.
SpecLifecycle == InitLifecycle /\ [][NextLifecycle]_vars

\* ----------------------------------------------------------- claims 14-16

\* No resource of the interface is held and no open flag is set.
NothingAcquired(G) ==
    /\ G.held = {}
    /\ G.gameCardReadBuf = <<>>
    /\ ~G.openDeviceOperator
    /\ ~G.openEventNotifier
    /\ ~G.loadKernelEvent
    /\ ~G.gameCardDetectionThreadCreated

\* C14: when gamecardInitialize returns failure, whichever acquisition step
\* failed, every resource acquired before that step has been released and
\* no open flag is left set.
C14_FailedInitializeReleasesAll ==
    mainpc = "init_failed" => NothingAcquired(g)

\* gamecardExit returns from the call that shuts the interface down (in
\* gamecard.c the call that drops the last reference, or one made with none).
ShutdownReturns == mainpc # "exit_done" /\ mainpc' = "exit_done" /\ ~Initialized'

\* C15: shutdown is idempotent and safe after a partial initialization:
\* called twice in a row or after a failed initialize, it has released each
\* acquired resource exactly once when it returns (nothing closed, freed or
\* joined that was not held, nothing left live), and a call made on a state
\* already shut down leaves that state as it is.
C15_ShutdownIdempotent ==
    [][ ShutdownReturns
        => /\ g'.misuse = {}
           /\ g'.leaked = {}
           /\ NothingAcquired(g')
           /\ (mainpc = "idle" /\ ~Initialized /\ NothingAcquired(g) => g' = g) ]_vars

C17_DriverReadsAligned ==
    \A i \in 1..Len(input.log) :
        /\ input.log[i].off % GAMECARD_MEDIA_UNIT_SIZE = 0
        /\ input.log[i].len % GAMECARD_MEDIA_UNIT_SIZE = 0

C17_Witness ==
    /\ cl["c1"].off % GAMECARD_MEDIA_UNIT_SIZE # 0
    /\ cl["c1"].size % GAMECARD_MEDIA_UNIT_SIZE # 0
    /\ Len(input.log) >= 2
    /\ \E i \in 1..Len(input.log) : input.log[i].into = "buf"

\* ---------------------------------------------------------------- claim 18

\* A card with any rom_size byte is in the slot when the interface has been
\* initialized and the detection thread starts.
InitCapacity ==
    /\ impl \in Impls
    /\ task = NoTask
    /\ \E b \in 0..255 : hw = [HwLoaded EXCEPT !.rom_size = b]
    /\ g = [InitializeSteps(GInit, 0) EXCEPT
              !.gamecardInterfaceInit = (impl = "part_000"),
              !.refCnt = IF impl = "gamecard_c" THEN 1 ELSE 0]
    /\ mutex = ""
    /\ det = [DetInit EXCEPT !.pc = "start"]
    /\ rd = [r \in Readers |-> NoRead]
    /\ cl = [c \in Clients |-> ClientInit]
    /\ mainpc = "idle"
    /\ input = [InputInit EXCEPT !.users = {}]

NextCapacity ==
    \/ DetStart
    \/ DetSampleInitial
    \/ DetLoadBegin
    \/ DetLoadPrepare
    \/ DetLoadTransfer
    \/ DetInitialDone

\* The initial load of a card, for every value of its rom_size byte.
SpecCapacity == InitCapacity /\ [][NextCapacity]_vars

\* C18: for every byte value the capacity lookup gives 1, 2, 4, 8, 16 or
\* 32 GiB exactly for 0xFA, 0xF8, 0xF0, 0xE0, 0xE1, 0xE2 and 0 for any
\* other value; the capacity cached from a header is the lookup of its
\* rom_size, and a card whose rom_size maps to 0 never has its info loaded.
C18_CapacityLookup ==
    LET GiB == 2^20   \* in KiB
        Documented(b) ==
            CASE b = 250 -> GiB
              [] b = 248 -> 2 * GiB
              [] b = 240 -> 4 * GiB
              [] b = 224 -> 8 * GiB
              [] b = 225 -> 16 * GiB
              [] b = 226 -> 32 * GiB
              [] OTHER -> 0
    IN  /\ \A b \in 0..255 : gamecardGetCapacityFromRomSizeValue(b) = Documented(b)
        /\ g.gameCardCapacity \in {0, Documented(hw.rom_size)}
        /\ g.gameCardHeader = hw.gen /\ g.gameCardHeader # 0
           => g.gameCardCapacity = Documented(hw.rom_size)
        /\ Documented(hw.rom_size) = 0 => ~g.gameCardInfoLoaded

C18_Witness ==
    /\ det.pc = "wait"
    /\ hw.rom_size = 225
    /\ g.gameCardInfoLoaded
    /\ g.gameCardCapacity = 16 * 2^20

\* ------------------------------------------- hash FS lookups (claims 19, 20)

\* Names are C strings: sequences of one-character strings, NUL past the end.
MaxNameLen == 2
MaxEntries == 2
NUL == "NUL"
NameChars == {"a", "A", "b"}

CharAt(s, i) == IF i <= Len(s) THEN s[i] ELSE NUL

\* tolower on the letters the names of the model use.
LowerOf ==
    ("A" :> "a") @@ ("U" :> "u") @@ ("S" :> "s") @@ ("E" :> "e") @@ ("C" :> "c")
    @@ ("R" :> "r")
tolower(ch) == IF ch \in DOMAIN LowerOf THEN LowerOf[ch] ELSE ch

\* The comparison loop of strncmp / strncasecmp / strcasecmp from character
\* i on: 0 when the strings agree on n characters or up to their NUL.
RECURSIVE CompareFrom(_, _, _, _, _)
CompareFrom(s1, s2, n, fold, i) ==
    LET c1 == CharAt(s1, i)
        c2 == CharAt(s2, i)
    IN  IF i > n THEN 0
        ELSE IF (IF fold THEN tolower(c1) # tolower(c2) ELSE c1 # c2) THEN 1
        ELSE IF c1 = NUL THEN 0
        ELSE CompareFrom(s1, s2, n, fold, i + 1)

strncmp(s1, s2, n) == CompareFrom(s1, s2, n, FALSE, 1)
strncasecmp(s1, s2, n) == CompareFrom(s1, s2, n, TRUE, 1)
strcasecmp(s1, s2) == CompareFrom(s1, s2, Len(s1) + Len(s2) + 1, TRUE, 1)

\* GameCardHashFileSystemPartitionType; Above is any value greater than
\* Secure, Root exists in part_000 only.
PartitionTypes(i) ==
    {"Update", "Logo", "Normal", "Secure", "Above"}
    \cup (IF i = "part_000" THEN {"Root"} ELSE {})

GAMECARD_HFS_PARTITION_NAME(x) ==
    CASE x = "Update" -> <<"u", "p", "d", "a", "t", "e">>
      [] x = "Logo"   -> <<"l", "o", "g", "o">>
      [] x = "Normal" -> <<"n", "o", "r", "m", "a", "l">>
      [] x = "Secure" -> <<"s", "e", "c", "u", "r", "e">>
      [] OTHER        -> <<"u", "n", "k", "n", "o", "w", "n">>

\* The loop over the entries of a hash FS header from entry i on, cmp[k]
\* being what the comparison of the k-th entry name returns: the 0-based
\* index of the first entry that compares equal, -1 if none does.
RECURSIVE ScanEntries(_, _)
ScanEntries(cmp, i) ==
    IF i > Len(cmp) THEN -1
    ELSE IF cmp[i] = 0 THEN i - 1
    ELSE ScanEntries(cmp, i + 1)

\* part_000: gamecardGetHashFileSystemEntryIndexByName.
gamecardGetHashFileSystemEntryIndexByName(names, name) ==
    IF Len(names) = 0 \/ Len(name) = 0 THEN -1
    ELSE ScanEntries([k \in 1..Len(names) |-> strncmp(names[k], name, Len(name))], 1)

\* gamecard.c: gamecardGetHashFileSystemPartitionIndexByType.
gamecardGetHashFileSystemPartitionIndexByType(root, type) ==
    IF type = "Above" THEN -1
    ELSE ScanEntries([k \in 1..Len(root) |->
                         strcasecmp(root[k], GAMECARD_HFS_PARTITION_NAME(type))], 1)

\* part_000: gamecardGetHashFileSystemPartitionHeader, for the types that
\* name a partition of the root table.
gamecardGetHashFileSystemPartitionHeader(root, type) ==
    IF type = "Above" THEN -1
    ELSE gamecardGetHashFileSystemEntryIndexByName(root, GAMECARD_HFS_PARTITION_NAME(type))

\* gamecard.c: gamecardGetHashFileSystemEntryName, the name as its offset
\* in the name table, -1 for NULL.
gamecardGetHashFileSystemEntryName(entry_count, name_table_size, name_offset) ==
    IF entry_count = 0 \/ name_offset >= name_table_size THEN -1 ELSE name_offset

\* part_000: gamecardGetHashFileSystemEntryNameByIndex for an existing entry.
gamecardGetHashFileSystemEntryNameByIndex(entry_count, name_table_size, name_offset) ==
    IF entry_count = 0 THEN -1 ELSE name_offset

\* pfsGetEntryName; nul: the character at name_offset is the terminator.
pfsGetEntryName(entry_count, name_table_size, name_offset, nul) ==
    IF entry_count = 0 \/ name_offset >= name_table_size \/ nul THEN -1
    ELSE name_offset

\* pfsGetEntryNameByIndex for an existing entry.
pfsGetEntryNameByIndex(entry_count, name_table_size, name_offset) ==
    IF entry_count = 0 THEN -1 ELSE name_offset

\* The entry lookup of gamecard.c's
\* gamecardGetOffsetAndSizeFromHashFileSystemPartitionEntryByName; outside:
\* the entries whose name_offset is not inside the name table, for which
\* gamecardGetHashFileSystemEntryName gives no name and the loop continues.
EntryByNameCaseless(names, outside, name) ==
    ScanEntries([k \in 1..Len(names) |->
                   IF k \in outside THEN 1
                   ELSE strncasecmp(names[k], name, Len(name))], 1)

\* gamecard.c: gamecardGetOffsetAndSizeFromHashFileSystemPartitionEntryByName;
\* part_000: gamecardGetEntryInfoFromHashFileSystemPartitionByName.  root and
\* entries are the entry names of the cached root header and of the cached
\* partition headers; part and idx are the partition and the entry the call
\* resolved (-1: none; part_000's type Root takes the root header itself and
\* resolves no partition).  For a partition entry in input.outside the name
\* in entries is what the memory at its name_offset, past the name table,
\* holds; oob: the call compared such memory.
gamecardGetEntryInfoByName ==
    /\ ~Pending
    /\ \E c \in input.users :
         /\ cl[c].pc = "idle"
         /\ mutex = ""
         /\ LET ready == g.gameCardInserted /\ g.gameCardInfoLoaded
                isroot == impl = "part_000" /\ input.type = "Root"
                part == IF ~ready \/ isroot THEN -1
                        ELSE IF impl = "gamecard_c"
                        THEN IF Len(input.name) = 0 THEN -1
                             ELSE gamecardGetHashFileSystemPartitionIndexByType(
                                      input.root, input.type)
                        ELSE gamecardGetHashFileSystemPartitionHeader(
                                 input.root, input.type)
                names == IF isroot THEN input.root ELSE input.entries
                outside == IF isroot THEN {} ELSE input.outside
                idx == IF ~ready \/ (part = -1 /\ ~isroot) THEN -1
                       ELSE IF impl = "gamecard_c"
                       THEN EntryByNameCaseless(names, outside, input.name)
                       ELSE gamecardGetHashFileSystemEntryIndexByName(names, input.name)
           IN  cl' = [cl EXCEPT ![c].pc = "done",
                                ![c].res = [op |-> "GetEntryInfoByName",
                                            ret |-> (idx # -1), wrote |-> (idx # -1),
                                            devcall |-> FALSE, opened |-> FALSE,
                                            part |-> part, idx |-> idx,
                                            oob |-> /\ impl = "part_000"
                                                    /\ ready /\ (part # -1 \/ isroot)
                                                    /\ Len(input.name) # 0
                                                    /\ \E k \in outside :
                                                          idx = -1 \/ k <= idx + 1]]
    /\ UNCHANGED <<impl, task, hw, g, mutex, det, rd, mainpc, input>>

\* Every name of at most n characters.
NamesUpTo(n) == UNION { [1..k -> NameChars] : k \in 0..n }

\* Root tables of a card: the usual ones, names in another case, a name that
\* only starts like a partition's, a partition missing, no entry at all.
RootTables ==
    LET update == <<"u", "p", "d", "a", "t", "e">>
        logo   == <<"l", "o", "g", "o">>
        normal == <<"n", "o", "r", "m", "a", "l">>
        secure == <<"s", "e", "c", "u", "r", "e">>
    IN  { <<update, normal, secure>>,
          <<update, logo, normal, secure>>,
          <<update, normal, <<"S", "E", "C", "U", "R", "E">>, secure>>,
          <<update, secure \o <<"2">>, secure>>,
          <<update, normal>>,
          <<>> }

\* A lookup by name on a loaded card: any root table with one query, or the
\* usual root table with any partition entries and any query.
InitLookup ==
    /\ impl \in Impls
    /\ task = NoTask
    /\ hw = HwLoaded
    /\ g = GLoaded(impl)
    /\ mutex = ""
    /\ det = DetWaiting
    /\ mainpc = "idle"
    /\ rd = [r \in Readers |-> NoRead]
    /\ cl = [c \in Clients |-> ClientInit]
    /\ \/ \E r \in RootTables, t \in PartitionTypes(impl), q \in NamesUpTo(1) :
            input = [type |-> t, root |-> r, entries |-> << <<"a">>, <<"b">> >>,
                     outside |-> {}, name |-> q] @@ InputInit
       \/ \E n \in 0..MaxEntries :
            \E es \in [1..n -> NamesUpTo(MaxNameLen) \ {<<>>}],
               q \in NamesUpTo(MaxNameLen + 1) :
                input = [type |-> "Secure",
                         root |-> << <<"u", "p", "d", "a", "t", "e">>,
                                     <<"s", "e", "c", "u", "r", "e">> >>,
                         entries |-> es, outside |-> {}, name |-> q] @@ InputInit

NextLookup ==
    \/ gamecardGetEntryInfoByName
    \/ Ack

\* Lookups by partition type and entry name.
SpecLookup == InitLookup /\ [][NextLookup]_vars

\* The lookup by name has returned to client c.
LookupReturned(c) == cl[c].pc = "done" /\ cl[c].res.op = "GetEntryInfoByName"

\* entry_name agrees with name, letter case apart, on the first Len(name)
\* characters.
AgreesOnQuery(entry_name, name) ==
    /\ Len(entry_name) >= Len(name)
    /\ \A j \in 1..Len(name) : tolower(entry_name[j]) = tolower(name[j])

\* The 0-based index of the first of names that is in S, -1 if none is.
FirstIn(names, S) ==
    IF \E i \in 1..Len(names) : names[i] \in S
    THEN (CHOOSE i \in 1..Len(names) :
             /\ names[i] \in S
             /\ \A k \in 1..(i - 1) : names[k] \notin S) - 1
    ELSE -1

\* C19: the lookup of an entry by name in a gamecard hash partition finds
\* the first entry, in entry order, whose name agrees with the query on the
\* query's length whatever the letter case; a query longer than every
\* stored name matches nothing, and an empty query is rejected.
C19_NameLookup ==
    \A c \in Clients :
        LookupReturned(c)
        => LET names == IF input.type = "Root" THEN input.root ELSE input.entries
               found == FirstIn(names, {n \in {names[i] : i \in 1..Len(names)} :
                                          AgreesOnQuery(n, input.name)})
           IN  /\ input.name = <<>> => ~cl[c].res.ret
               /\ (input.name # <<>> /\ (cl[c].res.part # -1 \/ input.type = "Root"))
                  => /\ cl[c].res.ret = (found # -1)
                     /\ cl[c].res.idx = found

\* C20: a partition type is resolved by scanning the root entries in order
\* and comparing each name, letter case apart, with the type's fixed name:
\* the first such entry's index is used, a type above Secure is rejected,
\* and the lookup fails when no root entry has the name.
C20_PartitionByType ==
    \A c \in Clients :
        (LookupReturned(c) /\ input.name # <<>> /\ input.type # "Root")
        => LET fixed == GAMECARD_HFS_PARTITION_NAME(input.type)
               part == IF input.type = "Above" THEN -1
                       ELSE FirstIn(input.root,
                                {n \in {input.root[i] : i \in 1..Len(input.root)} :
                                   Len(n) = Len(fixed) /\ AgreesOnQuery(n, fixed)})
           IN  /\ cl[c].res.part = part
               /\ part = -1 => ~cl[c].res.ret

\* ------------------------------------------------- info loading (claim 21)

MaxParts == 2
MaxAllocFail == 3

\* Headers of top-level partitions: a declared size of zero, one smaller
\* than the header with two entries, and a large one.
PartitionHeaders ==
    [size : {0, 100, 4096}, magic : BOOLEAN, entry_count : {0, 2},
     name_table_size : {0, 32}]

\* Hash FS descriptions of cards with at most MaxParts top-level partitions;
\* the declared root header size is too small for any root table or large.
CardFileSystems ==
    UNION { [root_size : {40, 512}, magic : BOOLEAN, name_table_size : {0, 32},
             parts : [1..n -> PartitionHeaders]] : n \in 0..MaxParts }

\* A card is in the slot when the interface has been initialized and the
\* detection thread starts: any hash FS under a good gamecard header, or the
\* usual hash FS under any gamecard header.
InitLoadInfo ==
    /\ impl \in Impls
    /\ task = NoTask
    /\ \/ \E f \in CardFileSystems : hw = [HwLoaded EXCEPT !.fs = f]
       \/ \E v \in BOOLEAN, b \in {0, GameCardRomSize_1GiB, GameCardRomSize_32GiB} :
            hw = [HwLoaded EXCEPT !.valid = v, !.rom_size = b]
    /\ g = [InitializeSteps(GInit, 0) EXCEPT
              !.gamecardInterfaceInit = (impl = "part_000"),
              !.refCnt = IF impl = "gamecard_c" THEN 1 ELSE 0]
    /\ mutex = ""
    /\ det = [DetInit EXCEPT !.pc = "start"]
    /\ rd = [r \in Readers |-> NoRead]
    /\ cl = [c \in Clients |-> ClientInit]
    /\ mainpc = "idle"
    /\ \E k \in 0..MaxAllocFail :
         /\ k # 0 => hw.fs = GoodFs
         /\ input = [InputInit EXCEPT !.users = {}, !.allocFail = k]

NextLoadInfo ==
    \/ DetStart
    \/ DetSampleInitial
    \/ DetLoadBegin
    \/ DetLoadPrepare
    \/ DetLoadTransfer
    \/ DetInitialDone
    \/ CardRemove

\* The initial load of a card, for every description of its headers; any
\* one calloc of the load may fail and the card may leave the slot at any
\* point of it.
SpecLoadInfo == InitLoadInfo /\ [][NextLoadInfo]_vars

\* A hash partition of card H declares less room than the header computed
\* from its fields takes: the root partition, or a top-level one.
RootOversized(H) ==
    HashFileSystemHeaderSize(Len(H.fs.parts), H.fs.name_table_size) > H.fs.root_size
PartitionOversized(H) ==
    \E i \in 1..Len(H.fs.parts) :
        HashFileSystemHeaderSize(H.fs.parts[i].entry_count,
                                 H.fs.parts[i].name_table_size) > H.fs.parts[i].size

\* C21: for the root partition and each top-level partition read during
\* info loading, a header size computed from the header's fields that
\* exceeds the partition's declared size makes the load fail: the info is
\* never loaded and the session is not ready.
C21_OversizedHeaderRejected ==
    (hw.present /\ (RootOversized(hw) \/ PartitionOversized(hw)))
    => ~(g.gameCardInserted /\ g.gameCardInfoLoaded)

\* ------------------------------------------------ entry names (claim 22)

MaxTableSize == 3

\* The entry-name accessor input.accessor applied to an entry of a header
\* with input.entry_count entries and a name table of input.name_table_size
\* bytes: gamecardGetHashFileSystemEntryName in gamecard.c and
\* gamecardGetHashFileSystemEntryNameByIndex in part_000 ("hfs"),
\* pfsGetEntryName, pfsGetEntryNameByIndex.  ptr: the name returned, as its
\* offset in the name table, -1 for NULL.
GetEntryName ==
    /\ ~Pending
    /\ input.call = "name"
    /\ \E c \in input.users :
         /\ cl[c].pc = "idle"
         /\ LET ptr ==
                  CASE input.accessor = "hfs" /\ impl = "gamecard_c" ->
                         gamecardGetHashFileSystemEntryName(
                             input.entry_count, input.name_table_size, input.name_offset)
                    [] input.accessor = "hfs" /\ impl = "part_000" ->
                         gamecardGetHashFileSystemEntryNameByIndex(
                             input.entry_count, input.name_table_size, input.name_offset)
                    [] input.accessor = "pfsGetEntryName" ->
                         pfsGetEntryName(input.entry_count, input.name_table_size,
                                         input.name_offset, input.nul)
                    [] OTHER ->
                         pfsGetEntryNameByIndex(
                             input.entry_count, input.name_table_size, input.name_offset)
            IN  cl' = [cl EXCEPT ![c].pc = "done",
                                 ![c].res = [op |-> "GetEntryName", ret |-> (ptr # -1),
                                             wrote |-> FALSE, devcall |-> FALSE,
                                             opened |-> FALSE, ptr |-> ptr]]
    /\ UNCHANGED <<impl, task, hw, g, mutex, det, rd, mainpc, input>>

\* The lookup by name, where input.call asks for it.
LookupEntryInfoByName == input.call = "lookup" /\ gamecardGetEntryInfoByName

\* A loaded card and either one accessor call on an entry with any
\* name_offset, inside the name table or not, or a lookup in a partition
\* some of whose entries have their name_offset outside the name table.
InitNames ==
    /\ impl \in Impls
    /\ task = NoTask
    /\ hw = HwLoaded
    /\ g = GLoaded(impl)
    /\ mutex = ""
    /\ det = DetWaiting
    /\ mainpc = "idle"
    /\ rd = [r \in Readers |-> NoRead]
    /\ cl = [c \in Clients |-> ClientInit]
    /\ LET usual == [type |-> "Secure",
                     root |-> << <<"u", "p", "d", "a", "t", "e">>,
                                 <<"s", "e", "c", "u", "r", "e">> >>,
                     entries |-> << <<"a">>, <<"b">> >>, outside |-> {},
                     name |-> <<"a">>, call |-> "lookup", accessor |-> "hfs",
                     entry_count |-> 1, name_table_size |-> 1, name_offset |-> 0,
                     nul |-> FALSE] @@ InputInit
       IN  \/ \E a \in {"hfs", "pfsGetEntryName", "pfsGetEntryNameByIndex"},
                 n \in 0..1, size \in 0..MaxTableSize, off \in 0..(MaxTableSize + 1),
                 z \in BOOLEAN :
                 input = [usual EXCEPT !.call = "name", !.accessor = a,
                                       !.entry_count = n, !.name_table_size = size,
                                       !.name_offset = off, !.nul = z]
           \/ \E n \in 0..MaxEntries :
                \E es \in [1..n -> NamesUpTo(1) \ {<<>>}], out \in SUBSET (1..n),
                   q \in NamesUpTo(1) :
                    input = [usual EXCEPT !.entries = es, !.outside = out, !.name = q]

NextNames ==
    \/ GetEntryName
    \/ LookupEntryInfoByName
    \/ Ack

\* Entry-name accessors and lookups over name offsets inside and outside
\* the name table.
SpecNames == InitNames /\ [][NextNames]_vars

\* C22: an entry-name accessor or a lookup never reads a name outside the
\* name table: for an entry whose name_offset is not below name_table_size
\* the accessor returns no name and the lookup skips the entry, neither
\* comparing nor returning it, in the gamecard code and the PFS0 accessors.
C22_NamesInsideTable ==
    \A c \in Clients :
        /\ (cl[c].pc = "done" /\ cl[c].res.op = "GetEntryName")
           => (cl[c].res.ptr # -1 => cl[c].res.ptr < input.name_table_size)
        /\ LookupReturned(c)
           => /\ ~cl[c].res.oob
              /\ cl[c].res.idx + 1 \notin input.outside

\* -------------------------------------------- handle retries (claim 23)

MaxGen == 2

\* gamecardGetHandle as gamecardOpenStorageArea calls it, after
\* gamecardCloseStorageArea, under the mutex.
GetHandle ==
    /\ ~Pending
    /\ mutex = ""
    /\ \E c \in input.users :
         /\ cl[c].pc = "idle"
         /\ LET h == gamecardGetHandle(gamecardCloseStorageArea(g), hw)
            IN  /\ g' = h.G
                /\ cl' = [cl EXCEPT ![c].pc = "done",
                                    ![c].res = [op |-> "GetHandle", ret |-> h.ok,
                                                wrote |-> FALSE, devcall |-> FALSE,
                                                opened |-> FALSE, tries |-> h.tries]]
    /\ UNCHANGED <<impl, task, hw, mutex, det, rd, mainpc, input>>

\* A loaded session whose card is in the slot, was replaced by another or
\* has left it, before the detection thread has seen the change; the handle
\* is closed, the loaded card's or a stale one, the storage area of the
\* load still open or closed.
InitHandle ==
    /\ impl \in Impls
    /\ task = NoTask
    /\ \E present \in BOOLEAN, gen \in 1..MaxGen :
         hw = [HwLoaded EXCEPT !.present = present, !.gen = gen]
    /\ \E handle \in 0..MaxGen, keep \in BOOLEAN :
         g = IF keep /\ handle = 1 THEN GLoaded(impl)
             ELSE [gamecardCloseStorageArea(GLoaded(impl)) EXCEPT !.gameCardHandle = handle]
    /\ mutex = ""
    /\ det = DetWaiting
    /\ mainpc = "idle"
    /\ rd = [r \in Readers |-> NoRead]
    /\ cl = [c \in Clients |-> ClientInit]
    /\ input = InputInit

NextHandle ==
    \/ GetHandle
    \/ gamecardReadStorage
    \/ ReadLock
    \/ ReadPrepareStep
    \/ ReadTransferStep
    \/ Ack

\* Handle acquisitions and reads on fresh, stale and closed handles.
SpecHandle == InitHandle /\ [][NextHandle]_vars

\* Client c's call of gamecardGetHandle has returned.
HandleReturned(c) == cl[c].pc = "done" /\ cl[c].res.op = "GetHandle"

\* C23: gamecardGetHandle makes at most 10 attempts; it succeeds as soon as
\* an open with the current handle succeeds, a failed open being followed
\* by a request for a fresh handle; when the attempts are exhausted it
\* returns failure with the handle closed (value 0), and then the
\* storage-area open and the read fail: a read of a card that has left the
\* slot returns false with nothing copied, and where it went to open the
\* storage area and made no driver read the handle and the area are closed.
C23_HandleRetriesBounded ==
    \A c \in Clients :
        /\ HandleReturned(c)
           => /\ cl[c].res.tries <= 10
              /\ cl[c].res.ret <=> fsOpenGameCardStorage(hw, g.gameCardHandle)
              /\ cl[c].res.ret => cl[c].res.tries <= 2
              /\ ~cl[c].res.ret => (cl[c].res.tries = 10 /\ g.gameCardHandle = 0)
        /\ (ReadReturned(c) /\ ~hw.present)
           => /\ ~cl[c].res.ret
              /\ ~cl[c].res.wrote
              /\ (cl[c].res.opened /\ ~cl[c].res.devcall)
                 => (g.gameCardHandle = 0 /\ ~g.gameCardStorage.active)

\* The ten attempts were used up and gamecardGetHandle returned false.
C23_Witness ==
    \E c \in Clients :
        HandleReturned(c) /\ ~cl[c].res.ret /\ cl[c].res.tries = 10 /\ g.gameCardHandle = 0

\* ------------------------------------------------ settle delay (claim 24)

\* C24: whenever the detection thread goes to load the card's info because
\* a card is in the slot, it has just taken the settle delay
\* (utilsSleep(GAMECARD_ACCESS_WAIT_TIME)) after sampling the insertion
\* status: every step that enters gamecardLoadInfo is the end of the sleep.
C24_LoadAfterSettleDelay ==
    [][(det.pc # "load" /\ det'.pc = "load") => det.pc = "sleep"]_vars

\* ---------------------------------------- data transfer task (claims 25, 26)

MaxTotal == 2
MaxXfer == 3
MaxListeners == 2
MaxPublished == 3

\* AsyncTask::execute: OnPreExecute starts the handler and sets prev_time,
\* then the background work starts.
TaskExecute ==
    /\ task.status = "PENDING"
    /\ task' = [task EXCEPT !.status = "RUNNING", !.running = TRUE, !.recent = TRUE]
    /\ UNCHANGED <<impl, hw, g, mutex, det, rd, cl, mainpc, input>>

\* The background work reports its progress (AsyncTask::PublishProgress).
TaskPublishProgress ==
    /\ task.status = "RUNNING" /\ ~task.ready
    /\ \E x \in 0..MaxXfer : task' = [task EXCEPT !.xfer_size = x]
    /\ task'.xfer_size # task.xfer_size
    /\ UNCHANGED <<impl, hw, g, mutex, det, rd, cl, mainpc, input>>

\* AsyncTask::cancel
TaskCancel ==
    /\ task.status = "RUNNING" /\ ~task.cancelled
    /\ task' = [task EXCEPT !.cancelled = TRUE]
    /\ UNCHANGED <<impl, hw, g, mutex, det, rd, cl, mainpc, input>>

\* DoInBackground returns: with everything transferred, with less, or
\* after a cancellation.
TaskBackgroundDone ==
    /\ task.status = "RUNNING" /\ ~task.ready
    /\ task' = [task EXCEPT !.ready = TRUE]
    /\ UNCHANGED <<impl, hw, g, mutex, det, rd, cl, mainpc, input>>

\* One second has gone by since prev_time.
TaskSecondPasses ==
    /\ task.status = "RUNNING" /\ task.recent
    /\ task' = [task EXCEPT !.recent = FALSE]
    /\ UNCHANGED <<impl, hw, g, mutex, det, rd, cl, mainpc, input>>

\* The UI thread runs the handler of a running RepeatingTask; at most
\* MaxPublished updates are published while the background work goes on.
TaskHandlerRun ==
    /\ task.running
    /\ task.ready \/ Len(task.published) < MaxPublished
    /\ task' = HandlerRun(task)
    /\ UNCHANGED <<impl, hw, g, mutex, det, rd, cl, mainpc, input>>

\* A task with its listeners registered and not yet executed; the gamecard
\* interface is not in use.
InitTask ==
    /\ impl = "gamecard_c"
    /\ hw = [present |-> FALSE, gen |-> 0, valid |-> FALSE, event |-> FALSE,
             rom_size |-> 0, fs |-> GoodFs]
    /\ g = GInit
    /\ mutex = ""
    /\ det = DetInit
    /\ rd = [r \in Readers |-> NoRead]
    /\ cl = [c \in Clients |-> ClientInit]
    /\ mainpc = "idle"
    /\ input = InputInit
    /\ \E total \in 0..MaxTotal, n \in 1..MaxListeners :
         task = [NoTask EXCEPT !.total_size = total, !.listeners = n]

NextTask ==
    \/ TaskExecute
    \/ TaskPublishProgress
    \/ TaskCancel
    \/ TaskBackgroundDone
    \/ TaskSecondPasses
    \/ TaskHandlerRun

\* A data transfer task from execute() to its post-execution callback.
SpecTask == InitTask /\ [][NextTask]_vars

\* C25: when the task ends, the handler is fired and stores the result of
\* LoopCallback() before the final progress event is delivered: every
\* listener called with the update of PostExecutionCallback gets true from
\* IsFinished().
C25_FinalUpdateSeesFinished ==
    \A i \in 1..Len(task.published) :
        task.published[i].final => task.published[i].finished

\* The final update was delivered to the listeners.
C25_Witness ==
    /\ task.ended
    /\ \E i \in 1..Len(task.published) :
         task.published[i].final /\ task.published[i].to = task.listeners

\* C26: when the task ends, finished with all bytes, with fewer than
\* total_size or cancelled, the progress is updated one last time and every
\* registered listener is called with that final update, whatever was
\* transferred and however long ago the last update was published.
C26_FinalUpdateDelivered ==
    task.ended
    => /\ task.last = "fired"
       /\ \E i \in 1..Len(task.published) :
            task.published[i].final /\ task.published[i].to = task.listeners

\* ------------------------------------------------ load outcome (claim 27)

\* The globals hold nothing of a card: header zeroed, area sizes and
\* capacity 0, no root header, no partitions, storage area closed.
InfoCleared(G) ==
    /\ G.gameCardHeader = 0
    /\ G.gameCardStorageNormalAreaSize = 0
    /\ G.gameCardStorageSecureAreaSize = 0
    /\ G.gameCardCapacity = 0
    /\ G.gameCardHfsRootHeader = 0
    /\ G.gameCardHfsPartitions = 0
    /\ ~G.gameCardStorage.active
    /\ G.gameCardStorageCurrentArea = GameCardStorageArea_None

\* C27: the info is marked loaded only if both area sizes are non-zero, the
\* header has the HEAD magic and a rom_size with a capacity, the root header
\* has the HFS0 magic, a non-zero entry count and name table size and fits
\* the declared root header size, every root entry has a non-zero size,
\* every partition header has the HFS0 magic and a non-zero name table size,
\* and no allocation failed; once a load has failed (a read or an allocation
\* failure included) the info is not loaded, the header is zeroed, area
\* sizes and capacity are 0, the partition tree is released and the storage
\* area is closed.
C27_LoadAllOrNothing ==
    /\ g.gameCardInfoLoaded
       => /\ g.gameCardStorageNormalAreaSize # 0
          /\ g.gameCardStorageSecureAreaSize # 0
          /\ hw.valid
          /\ hw.rom_size \in {GameCardRomSize_1GiB, GameCardRomSize_2GiB,
                              GameCardRomSize_4GiB, GameCardRomSize_8GiB,
                              GameCardRomSize_16GiB, GameCardRomSize_32GiB}
          /\ g.gameCardCapacity # 0
          /\ hw.fs.magic
          /\ Len(hw.fs.parts) # 0
          /\ hw.fs.name_table_size # 0
          /\ 16 + Len(hw.fs.parts) * 64 + hw.fs.name_table_size <= hw.fs.root_size
          /\ \A i \in 1..Len(hw.fs.parts) :
                /\ hw.fs.parts[i].size # 0
                /\ hw.fs.parts[i].magic
                /\ hw.fs.parts[i].name_table_size # 0
          /\ input.allocFail \notin 1..(2 + Len(hw.fs.parts))
    /\ (~g.gameCardInfoLoaded /\ det.pc \notin {"load", "load_read"})
       => InfoCleared(g)

\* A load in which an allocation failed has returned, the card still in the
\* slot.
C27_Witness ==
    /\ input.allocFail # 0
    /\ hw.present
    /\ det.pc = "wait"
    /\ det.failed # 0
    /\ ~g.gameCardInfoLoaded

\* ----------------------------------------- cross-boundary reads (claim 28)

\* Client c's read has returned, and it started in the normal area and
\* ended in the secure area.
CrossBoundaryReturned(c) ==
    /\ ReadReturned(c)
    /\ cl[c].ready
    /\ cl[c].size > 0
    /\ cl[c].off < HwAreaSize(GameCardStorageArea_Normal)
    /\ cl[c].off + cl[c].size > HwAreaSize(GameCardStorageArea_Normal)
    /\ cl[c].off + cl[c].size <= HwTotalSize

\* C28: a read that starts in the normal area and ends in the secure area
\* is served by driver reads each confined to one area, those of the normal
\* area first, and the output holds the bytes [offset, normalAreaSize) of
\* the normal area followed by the rest from secure-area offset 0 on; if a
\* driver read of the normal part fails the read fails and the secure area
\* is neither opened nor read.
C28_CrossBoundaryRead ==
    \A c \in Clients :
        CrossBoundaryReturned(c)
        => /\ \A i \in 1..Len(input.log) :
                 i # input.failAt
                 => input.log[i].off + input.log[i].len <= HwAreaSize(input.log[i].area)
           /\ \A i, j \in 1..Len(input.log) :
                 ( /\ input.log[i].area = GameCardStorageArea_Normal
                   /\ input.log[j].area = GameCardStorageArea_Secure ) => i < j
           /\ DriverSucceeds
              => /\ cl[c].res.ret
                 /\ rd[c].out = ImageRange(hw.gen, cl[c].off, cl[c].size)
           /\ ( /\ input.failAt # 0
                /\ Len(input.log) >= input.failAt
                /\ input.log[input.failAt].area = GameCardStorageArea_Normal )
              => /\ ~cl[c].res.ret
                 /\ \A i \in 1..Len(input.log) :
                       input.log[i].area # GameCardStorageArea_Secure
                 /\ g.gameCardStorage.area # GameCardStorageArea_Secure

\* ------------------------------------------ scratch-buffer reads (claim 29)

\* Client c's read is of a valid request: read_size > 0 and the range
\* inside the two areas.
ValidRequest(c) ==
    /\ cl[c].pc \in {"reading", "done"}
    /\ cl[c].ready
    /\ cl[c].size > 0
    /\ cl[c].off + cl[c].size <= HwTotalSize

\* C29: on the unaligned path of a valid request every driver read into
\* the scratch buffer is at most the buffer's capacity long, the range
\* copied out of the buffer lies inside the bytes just read
\* (data_start_offset + out_chunk_size <= chunk_size), and the copied
\* length is greater than 0 and at most what is left to read.
C29_ScratchCopyInBounds ==
    \A c \in Clients :
        ValidRequest(c)
        => /\ rd[c].status # "ub"
           /\ \A i \in 1..Len(input.log) :
                 input.log[i].into = "buf"
                 => /\ input.log[i].len <= GAMECARD_READ_BUFFER_SIZE
                    /\ input.log[i].start + input.log[i].copied <= input.log[i].len
                    /\ input.log[i].copied > 0
                    /\ input.log[i].copied <= input.log[i].left

\* A valid request was served through the scratch buffer in more than one
\* driver read, the first filling the buffer from an unaligned start.
C29_Witness ==
    \E c \in Clients :
        /\ ValidRequest(c)
        /\ ReadReturned(c)
        /\ cl[c].res.ret
        /\ Len(input.log) >= 2
        /\ input.log[1].into = "buf"
        /\ input.log[1].len = GAMECARD_READ_BUFFER_SIZE
        /\ input.log[1].start # 0

\* ----------------------------------------------- bounds check (claim 30)

\* C30: the bounds check of a read is sound in 64-bit unsigned arithmetic:
\* a read whose offset + read_size, summed without wrap-around, exceeds the
\* total size of the two areas is rejected, with no driver read and no copy
\* made, also when the 64-bit sum wraps.
C30_BoundsCheckSound ==
    \A c \in Clients :
        ( /\ ReadReturned(c)
          /\ cl[c].ready
          /\ cl[c].off + cl[c].size > HwTotalSize )
        => /\ ~cl[c].res.ret
           /\ ~cl[c].res.devcall
           /\ ~cl[c].res.wrote
           /\ Len(input.log) = 0

\* ------------------------------------------------- hash FS entry offsets

\* Values of a u64 field of a card's headers: small ones, an odd one and
\* the largest, so that the sums also wrap.
OffsetSamples == {0, 3, U64_MOD - 1}

\* One pass of the loop of gamecardLoadInfo over the root entries: what it
\* records of the top-level partition of root entry fs_entry, whose header
\* is partition_header.  All three fields are u64.
gamecardLoadInfoPartition(partition_fs_header_address, partition_fs_header_size, fs_entry, partition_header) ==
    [offset |-> u64(partition_fs_header_address + partition_fs_header_size
                    + fs_entry.offset),
     size |-> fs_entry.size,
     header_size |-> ALIGN_UP(u64(HashFileSystemHeaderSize(
                                      partition_header.entry_count,
                                      partition_header.name_table_size)),
                              GAMECARD_MEDIA_UNIT_SIZE)]

\* g_gameCardHfsPartitions after gamecardLoadInfo succeeded on a card.
LoadPartitions(card) ==
    [i \in 1..Len(card.root) |->
        gamecardLoadInfoPartition(card.partition_fs_header_address,
                                  card.partition_fs_header_size,
                                  card.root[i], card.parts[i])]

\* An offset taken from the start of the partition, its header not skipped.
EntryOffsetFromPartitionStart(partitions, isroot, part, idx, fs_entry) ==
    IF isroot THEN partitions[idx + 1].offset
    ELSE u64(partitions[part + 1].offset + fs_entry.offset)

\* *out_offset of the entry lookups: entry idx (fs_entry) of the partition
\* of index part; part_000's type Root reports the recorded offset of the
\* partition the root entry names.
EntryOffset(partitions, isroot, part, idx, fs_entry) ==
    IF isroot THEN partitions[idx + 1].offset
    ELSE u64(partitions[part + 1].offset + partitions[part + 1].header_size
             + fs_entry.offset)

\* gamecard.c: gamecardGetOffsetAndSizeFromHashFileSystemPartitionEntryByName;
\* part_000: gamecardGetEntryInfoFromHashFileSystemPartitionByIndex / ByName,
\* from the point where the partition (input.part, 0-based; input.isroot for
\* part_000's type Root) and the entry index (input.idx, given or found by
\* name) are known.  gamecardGetHashFileSystemEntryByIndex gives no entry at
\* or above entry_count.
GetEntryInfo ==
    /\ ~Pending
    /\ \E c \in input.users :
         /\ cl[c].pc = "idle"
         /\ mutex = ""
         /\ LET ready == g.gameCardInserted /\ g.gameCardInfoLoaded
                entries == IF input.isroot THEN input.card.root
                           ELSE input.card.parts[input.part + 1].entries
                found == ready /\ input.idx < Len(entries)
           IN  cl' = [cl EXCEPT
                        ![c].pc = "done",
                        ![c].res =
                            [op |-> "GetEntryInfo", ret |-> found, wrote |-> found,
                             devcall |-> FALSE, opened |-> FALSE,
                             out_offset |->
                                 IF found
                                 THEN EntryOffset(g.gameCardHfsPartitions,
                                                  input.isroot, input.part,
                                                  input.idx, entries[input.idx + 1])
                                 ELSE -1,
                             out_size |-> IF found THEN entries[input.idx + 1].size
                                          ELSE -1]]
    /\ UNCHANGED <<impl, task, hw, g, mutex, det, rd, mainpc, input>>

\* Cards with two top-level partitions.  The first has one entry; the
\* second has any header address and size, any place in the root, one or
\* two entries and any name table size.
OffsetCards ==
    { [partition_fs_header_address |-> a, partition_fs_header_size |-> s,
       root |-> << [offset |-> 0, size |-> 4], [offset |-> ro, size |-> 7] >>,
       parts |-> << [entry_count |-> 1, name_table_size |-> 2,
                     entries |-> << [offset |-> 1, size |-> 5] >>],
                    [entry_count |-> n, name_table_size |-> t,
                     entries |-> [k \in 1..n |->
                                    [offset |-> IF k = 1 THEN eo ELSE 0,
                                     size |-> 8 + k]]] >>] :
      a \in OffsetSamples, s \in {2, U64_MOD - 2}, ro \in OffsetSamples,
      n \in 1..2, t \in 1..MaxTableSize, eo \in OffsetSamples }

\* A loaded card of OffsetCards and one query: a partition, or the root in
\* part_000, and an entry index, also one past the last entry.
InitOffsets ==
    /\ impl \in Impls
    /\ task = NoTask
    /\ hw = HwLoaded
    /\ mutex = ""
    /\ det = DetWaiting
    /\ mainpc = "idle"
    /\ rd = [r \in Readers |-> NoRead]
    /\ cl = [c \in Clients |-> ClientInit]
    /\ \E card \in OffsetCards, part \in 0..1, idx \in 0..2,
          isroot \in (IF impl = "part_000" THEN BOOLEAN ELSE {FALSE}) :
         /\ g = [GLoaded(impl) EXCEPT !.gameCardHfsPartitions = LoadPartitions(card)]
         /\ input = [card |-> card, part |-> part, idx |-> idx,
                     isroot |-> isroot] @@ InputInit

NextOffsets ==
    \/ GetEntryInfo
    \/ Ack

\* Offsets and sizes of hash FS entries.
SpecOffsets == InitOffsets /\ [][NextOffsets]_vars

\* Round x up to a multiple of y, no word width involved.
RoundUp(x, y) == ((x + y - 1) \div y) * y

EntryInfoReturned(c) == cl[c].pc = "done" /\ cl[c].res.op = "GetEntryInfo"

\* C31: the offset reported for an entry of a top-level partition is
\* partition_fs_header_address + partition_fs_header_size + the root
\* entry's offset + the partition's full header size rounded up to a media
\* unit + the entry's offset, as a u64, and the reported size is the
\* entry's; the offset recorded for a top-level partition, which is what
\* part_000 reports for a root entry, is partition_fs_header_address +
\* partition_fs_header_size + the root entry's offset.
C31_EntryOffsets ==
    LET card == input.card
        base == card.partition_fs_header_address + card.partition_fs_header_size
    IN  /\ \A i \in 1..Len(card.root) :
              g.gameCardHfsPartitions[i].offset = u64(base + card.root[i].offset)
        /\ \A c \in Clients :
              (EntryInfoReturned(c) /\ cl[c].res.ret) =>
                 IF input.isroot
                 THEN /\ cl[c].res.out_offset
                           = u64(base + card.root[input.idx + 1].offset)
                      /\ cl[c].res.out_size = card.root[input.idx + 1].size
                 ELSE LET p == card.parts[input.part + 1]
                          e == p.entries[input.idx + 1]
                      IN  /\ cl[c].res.out_offset
                                = u64(base + card.root[input.part + 1].offset
                                      + RoundUp(HashFileSystemHeaderSize(
                                                    p.entry_count, p.name_table_size),
                                                GAMECARD_MEDIA_UNIT_SIZE)
                                      + e.offset)
                          /\ cl[c].res.out_size = e.size

\* An entry of the second partition was reported whose header size is not a
\* multiple of the media unit and whose offset sum wraps.
C31_Witness ==
    \E c \in Clients :
        /\ EntryInfoReturned(c) /\ cl[c].res.ret
        /\ ~input.isroot /\ input.part = 1
        /\ input.card.parts[2].name_table_size % GAMECARD_MEDIA_UNIT_SIZE # 0
        /\ input.card.parts[2].entries[input.idx + 1].offset # 0
        /\ input.card.partition_fs_header_address
           + input.card.partition_fs_header_size + input.card.root[2].offset
           >= U64_MOD

\* ------------------------------------------- cache and storage bookkeeping

\* C32: in every state in which the session mutex is free the cache is
\* all-or-nothing: with the info loaded the inserted flag is true, both
\* area sizes and the capacity are non-zero and the root header and the
\* partition array are allocated; with the info not loaded the header is
\* zeroed, area sizes and capacity are 0, the root header and the partition
\* array are null, the storage area is closed and the gamecard handle is 0.
C32_CacheAllOrNothing ==
    mutex = ""
    => /\ g.gameCardInfoLoaded
          => /\ g.gameCardInserted
             /\ g.gameCardStorageNormalAreaSize # 0
             /\ g.gameCardStorageSecureAreaSize # 0
             /\ g.gameCardCapacity # 0
             /\ g.gameCardHfsRootHeader # 0
             /\ g.gameCardHfsPartitions # 0
       /\ ~g.gameCardInfoLoaded
          => /\ InfoCleared(g)
             /\ g.gameCardHandle = 0

\* gamecardOpenStorageArea(area) called with the mutex held, as
\* gamecardReadStorageArea and gamecardGetStorageAreasSizes call it; before:
\* the handle, the storage and the current area the call found.
OpenStorageArea ==
    /\ ~Pending
    /\ mutex = ""
    /\ \E c \in input.users,
          area \in {GameCardStorageArea_Normal, GameCardStorageArea_Secure} :
         /\ cl[c].pc = "idle"
         /\ LET o == gamecardOpenStorageArea(g, hw, area)
                calls == gamecardOpenStorageAreaCalls(g, hw, area)
            IN  /\ g' = o.G
                /\ cl' = [cl EXCEPT ![c].pc = "done",
                                    ![c].res = [op |-> "OpenStorageArea", ret |-> o.ok,
                                                wrote |-> FALSE,
                                                devcall |-> calls # <<>>,
                                                opened |-> TRUE, area |-> area,
                                                calls |-> calls,
                                                before |-> <<g.gameCardHandle,
                                                             g.gameCardStorage,
                                                             g.gameCardStorageCurrentArea>>]]
    /\ UNCHANGED <<impl, task, hw, mutex, det, rd, mainpc, input>>

\* gamecardCloseStorageArea() called with the mutex held, as
\* gamecardGetStorageAreasSizes and gamecardFreeInfo call it.
CloseStorageArea ==
    /\ ~Pending
    /\ mutex = ""
    /\ g.gameCardStorageCurrentArea # GameCardStorageArea_None
    /\ \E c \in input.users :
         /\ cl[c].pc = "idle"
         /\ g' = gamecardCloseStorageArea(g)
         /\ cl' = [cl EXCEPT ![c].pc = "done",
                             ![c].res = [op |-> "CloseStorageArea", ret |-> TRUE,
                                         wrote |-> FALSE, devcall |-> TRUE,
                                         opened |-> FALSE]]
    /\ UNCHANGED <<impl, task, hw, mutex, det, rd, mainpc, input>>

\* A loaded session, the storage area of the load still open or closed;
\* the card is in the slot, was replaced by another or has left it before
\* the detection thread has seen the change.
InitArea ==
    /\ impl \in Impls
    /\ task = NoTask
    /\ \E present \in BOOLEAN, gen \in 1..MaxGen :
         hw = [HwLoaded EXCEPT !.present = present, !.gen = gen]
    /\ \E keep \in BOOLEAN :
         g = IF keep THEN GLoaded(impl) ELSE gamecardCloseStorageArea(GLoaded(impl))
    /\ mutex = ""
    /\ det = DetWaiting
    /\ mainpc = "idle"
    /\ rd = [r \in Readers |-> NoRead]
    /\ cl = [c \in Clients |-> ClientInit]
    /\ input = InputInit

NextArea ==
    \/ OpenStorageArea
    \/ CloseStorageArea
    \/ gamecardReadStorage
    \/ ReadLock
    \/ ReadPrepareStep
    \/ ReadTransferStep
    \/ Ack

\* Opens, closes and reads of the two storage areas.
SpecArea == InitArea /\ [][NextArea]_vars

AreaReturned(c) == cl[c].pc = "done" /\ cl[c].res.op = "OpenStorageArea"

\* The calls that acquire: a handle from the device operator or a storage.
Acquiring == {"fsDeviceOperatorGetGameCardHandle", "fsOpenGameCardStorage"}

ReadGuardStep(c) ==
    /\ cl[c].pc = "reading"
    /\ cl[c].res.op = "none"
    /\ rd'[c] # rd[c]

\* C34: a public read that reaches its guard while the session is not
\* ready (no card, info load in progress or failed, card removed: the
\* inserted flag or the info-loaded flag is false) returns false and has
\* opened no storage area and called no driver; the globals stay as they
\* were.
C34_NotReadyReadFails ==
    [][ \A c \in Clients :
          (ReadGuardStep(c) /\ ~IsReady(g))
          => /\ cl'[c].pc = "done"
             /\ ~cl'[c].res.ret
             /\ ~cl'[c].res.opened
             /\ ~cl'[c].res.devcall
             /\ g' = g
      ]_vars

\* ------------------------------------------------ initialize, once more

\* This step is a call of gamecardInitialize that returns.
InitializeReturns == mainpc = "idle" /\ mainpc' \in {"init_ok", "init_failed"}

\* C35: gamecardInitialize called on an initialized interface returns true
\* and acquires nothing: no second read buffer, no handle, event or
\* notifier reopened, the detection thread left as it is; and over any
\* sequence of initialize and exit calls a detection thread is created only
\* when none exists, so there is never more than one.
C35_InitializeOnce ==
    [][ /\ (InitializeReturns /\ Initialized)
           => /\ mainpc' = "init_ok"
              /\ g'.held = g.held
              /\ g'.leaked = g.leaked
              /\ g'.gameCardReadBuf = g.gameCardReadBuf
              /\ g'.gameCardHandle = g.gameCardHandle
              /\ det' = det
        /\ (det'.pc = "start" /\ det.pc # "start")
           => /\ det.pc = "off"
              /\ "thread" \notin g.held
        /\ "thread" \notin g'.leaked
      ]_vars

\* gamecardInitialize has returned true for the second time in a row while
\* the detection thread of the first call runs.
C35_Witness ==
    /\ mainpc = "init_ok"
    /\ g.refCnt = 2
    /\ det.pc \notin {"off", "done"}
    /\ "thread" \in g.held

\* --------------------------------------------------- reads terminate

\* gamecardReadStorageArea alone, on every input, each of its steps taken
\* as long as the call has not returned: the thread that reads is
\* scheduled, the driver answers every call.
SpecReadLive == SpecRead /\ WF_vars(NextRead)

\* The read of client c makes a recursive call in this step: the split of a
\* read that spans both areas leaves two frames where one was, the
\* continuation after a scratch-buffer chunk a new call in place of the
\* frame that read.
SplitStep(c) ==
    /\ rd[c].status = "run" /\ rd'[c].status = "run"
    /\ Len(rd'[c].stack) = Len(rd[c].stack) + 1

ContinuationStep(c) ==
    /\ rd[c].status = "run" /\ rd'[c].status = "run"
    /\ Len(rd'[c].stack) = Len(rd[c].stack)
    /\ Head(rd[c].stack).st = "read"

PublishStep == Len(task'.published) = Len(task.published) + 1

\* A step in which the handler ran (Handler::run through LoopCallback).
HandlerStep == task.running /\ task' = HandlerRun(task) /\ task' # task

\* C37: an update is published only if nothing was published before, or its
\* xfer_size is greater than the last published xfer_size, or equal to it
\* with total_size 0 or xfer_size >= total_size; an update with a smaller
\* xfer_size is not published, and the published xfer_size values never
\* decrease.
C37_PublishedOnlyOnProgress ==
    /\ [][PublishStep =>
            LET n == Len(task.published)
                x == task'.published[n + 1].xfer_size
            IN  /\ x = task.xfer_size
                /\ \/ n = 0
                   \/ x > task.published[n].xfer_size
                   \/ /\ x = task.published[n].xfer_size
                      /\ task.total_size = 0 \/ x >= task.total_size]_vars
    /\ [][(HandlerStep /\ Len(task.published) > 0
            /\ task.xfer_size < task.published[Len(task.published)].xfer_size)
            => task'.published = task.published /\ task'.last = "noprogress"]_vars
    /\ [](\A i \in 1..Len(task.published) : \A j \in i..Len(task.published) :
            task.published[i].xfer_size <= task.published[j].xfer_size)

\* Two updates were published, the second with the same xfer_size as the
\* first, and an update with a smaller xfer_size was then left out.
C37_Witness ==
    /\ Len(task.published) >= 2
    /\ task.published[1].xfer_size = task.published[2].xfer_size
    /\ task.xfer_size < task.prev_xfer_size
    /\ task.last = "noprogress"

\* C38: the throttle drops an update only when the task is not cancelled,
\* less than one second has passed since the last published update, and
\* either the update is not the last chunk (total_size known and xfer_size
\* below it) or total_size is unknown and the task is still running; a
\* last-chunk update with known total_size and any update of a cancelled
\* task are not dropped by the throttle.
C38_ThrottleDropsOnly ==
    [][(HandlerStep /\ task'.last = "throttled") =>
          /\ ~task.cancelled
          /\ task.recent
          /\ \/ task.total_size # 0 /\ task.xfer_size < task.total_size
             \/ task.total_size = 0 /\ task'.status = "RUNNING"]_vars

\* ----------------------------------------- NCA hierarchical SHA-256 offsets

NCA_HIERARCHICAL_SHA256_MAX_REGION_COUNT == 5

\* NcaRegion values: inside a section of 2 or more bytes, reaching past the
\* end of the word, empty, and starting at offset 2.
RegionSamples ==
    {[offset |-> 0, size |-> 1], [offset |-> 1, size |-> U64_MOD - 1],
     [offset |-> 1, size |-> 0], [offset |-> 2, size |-> 1]}

SectionSizeSamples == {0, 2, U64_MOD - 1}

\* NcaHierarchicalSha256Data without master_hash: hash_block_size,
\* hash_region_count and the five hash_region slots, whatever the count.
HierarchicalSha256Samples ==
    [hash_block_size : 0..1,
     hash_region_count : 0..(NCA_HIERARCHICAL_SHA256_MAX_REGION_COUNT + 1),
     hash_region : [1..NCA_HIERARCHICAL_SHA256_MAX_REGION_COUNT -> RegionSamples]]

RECURSIVE HashRegionsLoop(_, _, _)

\* The loop of ncaValidateHierarchicalSha256Offsets from index i on.
HashRegionsLoop(data, section_size, i) ==
    IF ~(i < data.hash_region_count) THEN TRUE
    ELSE LET region == data.hash_region[i + 1]
         IN  IF \/ region.offset >= section_size
                \/ region.size = 0
                \/ u64(region.offset + region.size) > section_size
             THEN FALSE
             ELSE HashRegionsLoop(data, section_size, i + 1)

\* ncaValidateHierarchicalSha256Offsets(hierarchical_sha256_data,
\* section_size); isnull: the pointer is NULL.
ncaValidateHierarchicalSha256Offsets(isnull, data, section_size) ==
    IF \/ isnull
       \/ section_size = 0
       \/ data.hash_block_size = 0
       \/ data.hash_region_count = 0
       \/ data.hash_region_count > NCA_HIERARCHICAL_SHA256_MAX_REGION_COUNT
    THEN FALSE
    ELSE HashRegionsLoop(data, section_size, 0)

\* A caller validates the hash data of a section.
ValidateHierarchicalSha256Offsets ==
    /\ ~Pending
    /\ \E c \in input.users :
         /\ cl[c].pc = "idle"
         /\ cl' = [cl EXCEPT
                     ![c].pc = "done",
                     ![c].res =
                         [op |-> "ncaValidateHierarchicalSha256Offsets",
                          ret |-> ncaValidateHierarchicalSha256Offsets(
                                      input.isnull, input.data,
                                      input.section_size),
                          wrote |-> FALSE, devcall |-> FALSE,
                          opened |-> FALSE]]
    /\ UNCHANGED <<impl, task, hw, g, mutex, det, rd, mainpc, input>>

\* Any hash data and section size; the gamecard interface is not in use.
InitNca ==
    /\ impl = "gamecard_c"
    /\ task = NoTask
    /\ hw = [present |-> FALSE, gen |-> 0, valid |-> FALSE, event |-> FALSE,
             rom_size |-> 0, fs |-> GoodFs]
    /\ g = GInit
    /\ mutex = ""
    /\ det = DetInit
    /\ rd = [r \in Readers |-> NoRead]
    /\ cl = [c \in Clients |-> ClientInit]
    /\ mainpc = "idle"
    /\ \E data \in HierarchicalSha256Samples, section_size \in SectionSizeSamples,
          isnull \in BOOLEAN :
         /\ isnull => data.hash_region_count = 1 /\ data.hash_block_size = 1
         /\ input = [data |-> data, section_size |-> section_size,
                     isnull |-> isnull] @@ InputInit

NextNca ==
    \/ ValidateHierarchicalSha256Offsets
    \/ Ack

\* Validation of hierarchical SHA-256 hash data.
SpecNca == InitNca /\ [][NextNca]_vars

\* The call of ncaValidateHierarchicalSha256Offsets has returned to c.
NcaReturned(c) ==
    cl[c].pc = "done" /\ cl[c].res.op = "ncaValidateHierarchicalSha256Offsets"

\* C39: for hash data that is there, ncaValidateHierarchicalSha256Offsets
\* returns true exactly when section_size > 0, hash_block_size > 0,
\* 1 <= hash_region_count <= 5 and every region below hash_region_count has
\* size > 0, offset < section_size and offset + size <= section_size as
\* integers, not modulo 2^64; the regions from hash_region_count on do not
\* count.
C39_HashRegionsInsideSection ==
    \A c \in Clients :
        (NcaReturned(c) /\ ~input.isnull) =>
            (cl[c].res.ret <=>
                /\ input.section_size > 0
                /\ input.data.hash_block_size > 0
                /\ input.data.hash_region_count >= 1
                /\ input.data.hash_region_count
                       <= NCA_HIERARCHICAL_SHA256_MAX_REGION_COUNT
                /\ \A i \in 1..input.data.hash_region_count :
                       /\ input.data.hash_region[i].size > 0
                       /\ input.data.hash_region[i].offset < input.section_size
                       /\ input.data.hash_region[i].offset
                              + input.data.hash_region[i].size
                              <= input.section_size)

\* ------------------------------------------------- Partition FS accessors

MaxFrees == 2

\* PartitionFileSystemContext: null (the pointer passed is NULL), header (0
\* for NULL, else the heap block), header_size (0, or 1 for any size above
\* 0), storage (storage_ctx holds something).
ZeroPfsContext == [null |-> FALSE, header |-> 0, header_size |-> 0, storage |-> FALSE]

\* The contexts a caller can hold: no context, a zeroed one, one whose
\* initialization went through, and one with only header or only
\* header_size set.
PfsContexts ==
    {[ZeroPfsContext EXCEPT !.null = TRUE], ZeroPfsContext,
     [null |-> FALSE, header |-> 1, header_size |-> 1, storage |-> TRUE],
     [null |-> FALSE, header |-> 0, header_size |-> 1, storage |-> TRUE],
     [null |-> FALSE, header |-> 1, header_size |-> 0, storage |-> TRUE]}

\* ncaStorageFreeContext: the storage context holds nothing afterwards.
ncaStorageFreeContext(storage) == FALSE

\* pfsFreeContext on the context ctx with the heap blocks live allocated:
\* the context afterwards, the heap afterwards, and whether free() was given
\* a block that is not allocated.
pfsFreeContext(ctx, live) ==
    IF ctx.null THEN [ctx |-> ctx, live |-> live, badfree |-> FALSE]
    ELSE LET freed == [ctx EXCEPT !.storage = ncaStorageFreeContext(@)]
         IN  [ctx |-> [freed EXCEPT !.header = 0, !.header_size = 0,
                                    !.storage = FALSE],
              live |-> IF freed.header # 0 THEN live \ {freed.header} ELSE live,
              badfree |-> freed.header # 0 /\ freed.header \notin live]

\* An entry-by-index that lets idx = entry_count through.
pfsGetEntryByIndexInclusive(entry_count, idx) ==
    IF idx > entry_count THEN -1 ELSE idx

\* pfsGetEntryCount; hdr: the PartitionFileSystemHeader at ctx->header.
pfsGetEntryCount(ctx, hdr) ==
    IF ctx.null \/ ctx.header_size = 0 \/ ctx.header = 0 THEN 0
    ELSE hdr.entry_count

\* pfsGetEntryByIndex with entry_count = pfsGetEntryCount(ctx): the entry as
\* its index, -1 for NULL.
pfsGetEntryByIndex(entry_count, idx) ==
    IF idx >= entry_count THEN -1 ELSE idx

\* pfsGetNameTable with entry_count = pfsGetEntryCount(ctx): whether the
\* pointer returned is not NULL.
pfsGetNameTable(entry_count) == entry_count # 0

\* A caller asks the five accessors about its context, with any index and
\* any entry's name_offset.
PfsAccess ==
    /\ ~Pending
    /\ \E c \in input.users, idx \in 0..(MaxEntries + 1),
          name_offset \in 0..MaxTableSize, nul \in BOOLEAN :
         /\ cl[c].pc = "idle"
         /\ LET entry_count == pfsGetEntryCount(input.ctx, input.hdr)
                fs_entry == pfsGetEntryByIndex(entry_count, idx)
            IN  cl' = [cl EXCEPT
                         ![c].pc = "done",
                         ![c].res =
                             [op |-> "PfsAccess", ret |-> entry_count # 0,
                              wrote |-> FALSE, devcall |-> FALSE,
                              opened |-> FALSE, idx |-> idx,
                              entry_count |-> entry_count,
                              fs_entry |-> fs_entry,
                              name_table |-> pfsGetNameTable(entry_count),
                              name |->
                                  pfsGetEntryName(entry_count,
                                                  input.hdr.name_table_size,
                                                  name_offset, nul),
                              name_by_index |->
                                  IF fs_entry = -1 THEN -1
                                  ELSE pfsGetEntryNameByIndex(
                                           entry_count,
                                           input.hdr.name_table_size,
                                           name_offset)]]
    /\ UNCHANGED <<impl, task, hw, g, mutex, det, rd, mainpc, input>>

\* A caller frees its context.
PfsFreeContext ==
    /\ ~Pending
    /\ input.frees < MaxFrees
    /\ \E c \in input.users :
         /\ cl[c].pc = "idle"
         /\ LET r == pfsFreeContext(input.ctx, input.live)
            IN  /\ input' = [input EXCEPT !.ctx = r.ctx, !.live = r.live,
                                          !.badfree = @ \/ r.badfree,
                                          !.frees = @ + 1]
                /\ cl' = [cl EXCEPT
                            ![c].pc = "done",
                            ![c].res = [op |-> "PfsFreeContext", ret |-> TRUE,
                                        wrote |-> FALSE, devcall |-> FALSE,
                                        opened |-> FALSE]]
    /\ UNCHANGED <<impl, task, hw, g, mutex, det, rd, mainpc>>

\* A context of any of the kinds above (kept as ctx0), its header block
\* allocated if it has one, over a header with any entry count and name table
\* size; the gamecard interface is not in use.
InitPfs ==
    /\ impl = "gamecard_c"
    /\ task = NoTask
    /\ hw = [present |-> FALSE, gen |-> 0, valid |-> FALSE, event |-> FALSE,
             rom_size |-> 0, fs |-> GoodFs]
    /\ g = GInit
    /\ mutex = ""
    /\ det = DetInit
    /\ rd = [r \in Readers |-> NoRead]
    /\ cl = [c \in Clients |-> ClientInit]
    /\ mainpc = "idle"
    /\ \E ctx \in PfsContexts, n \in 0..MaxEntries, size \in 0..MaxTableSize :
         input = [ctx |-> ctx, ctx0 |-> ctx,
                  hdr |-> [entry_count |-> n, name_table_size |-> size],
                  live |-> IF ctx.header # 0 THEN {ctx.header} ELSE {},
                  badfree |-> FALSE, frees |-> 0] @@ InputInit

NextPfs ==
    \/ PfsAccess
    \/ PfsFreeContext
    \/ Ack

\* Partition FS contexts, their accessors and pfsFreeContext.
SpecPfs == InitPfs /\ [][NextPfs]_vars

\* The accessors have returned to c.
PfsAccessed(c) == cl[c].pc = "done" /\ cl[c].res.op = "PfsAccess"

\* The context holds no header: never initialized, or freed.
PfsUnusable == input.ctx.null \/ input.ctx.header = 0 \/ input.ctx.header_size = 0

\* C40: on a context with header NULL or header_size 0 the entry count is
\* 0, entry-by-index is NULL for every index, the name table and every
\* entry name are NULL; on an initialized context entry-by-index is not NULL
\* exactly for the indexes below entry_count; freeing a context a second
\* time frees nothing and leaves it zeroed.
C40_PfsAccessorsGuarded ==
    /\ [](\A c \in Clients : PfsAccessed(c) =>
            /\ PfsUnusable =>
                 /\ cl[c].res.entry_count = 0
                 /\ cl[c].res.fs_entry = -1
                 /\ ~cl[c].res.name_table
                 /\ cl[c].res.name = -1
                 /\ cl[c].res.name_by_index = -1
            /\ ~PfsUnusable =>
                 (cl[c].res.fs_entry # -1 <=> cl[c].res.idx < input.hdr.entry_count))
    /\ [](~input.badfree)
    /\ [][(input'.frees = input.frees + 1 /\ input.frees >= 1) =>
            /\ input'.ctx = input.ctx
            /\ input'.live = input.live
            /\ ~input.ctx.null => input'.ctx = ZeroPfsContext]_vars

\* A context that was initialized with entries was freed twice, and the
\* accessors then gave no entry at an index below the old entry_count.
C40_Witness ==
    /\ ~input.ctx0.null /\ input.ctx0.header # 0 /\ input.ctx0.header_size # 0
    /\ input.frees = MaxFrees /\ input.live = {}
    /\ \E c \in Clients :
         /\ PfsAccessed(c)
         /\ cl[c].res.idx < input.hdr.entry_count
         /\ cl[c].res.fs_entry = -1

=============================================================================
